---- MODULE Spec2Model ----
(***************************************************************************)
(* State-machine model of okx-tui-monitor: the OKX WebSocket client        *)
(* (core/okx_client.go), the start-up code of main() (main.go) and the     *)
(* reducer of the terminal UI (ui model, Model.Update).                    *)
(*                                                                         *)
(* Every goroutine is a task that owns a list of pending primitive steps   *)
(* (todo[t]).  A handler of the source is an operator that returns the     *)
(* steps of its body in program order; the actions below execute the step  *)
(* at the head of a task's list, one blocking point of the Go runtime per  *)
(* action (channel send, mutex lock, transport write, transport read,      *)
(* timer tick).  A transport write takes two actions (begin, end) so that  *)
(* overlapping writes are observable.                                      *)
(***************************************************************************)
EXTENDS Integers, Sequences, FiniteSets, TLC

VARIABLES
    env,              \* main(): local apiKey, secretKey, passphrase
    validCredentials, \* main(): result of validateAPICredentials
    cred,             \* OKXClient.apiKey, .secretKey, .passphrase
    isDemo,           \* OKXClient.isDemo
    conn,             \* OKXClient.conn / .tickerConn: state of each transport
    endpoint,         \* URL dialed for OKXClient.conn
    mutex,            \* OKXClient.connMutex / .tickerMutex: holder or "free"
    writing,          \* tasks inside a WriteJSON/WriteMessage on each transport
    written,          \* frames completely written on each transport, in order
    currentPositions, \* OKXClient.currentPositions (its key set)
    demoPositions,    \* OKXClient.demoPositions
    chans,            \* positionCh, balanceCh, errorCh: the buffered contents
    todo,             \* per task: the steps still to execute
    err,              \* per task: the error value last returned to it
    dialed,           \* per transport: outcome of its Dial
    connectResult,    \* what Connect returned
    events,           \* inbound frames, timer ticks and transport failures so far
    readLog,          \* per transport: what each ReadMessage returned, in wire order
    ticks,            \* per transport: 25 s intervals its heartbeat has seen
    seqno,            \* per stream: records decoded so far (wire order stamp)
    call,             \* a function of the program under evaluation: its
                      \* arguments and, once it returned, its value
    ui                \* the UI Model (reducer state)

vars == <<env, validCredentials, cred, isDemo, conn, endpoint, mutex, writing,
          written, currentPositions, demoPositions, chans, todo, err, dialed, connectResult, events, readLog,
          ticks, seqno, call, ui>>

---------------------------------------------------------------------------
(* Bounds of the model *)

MaxEvents == 2      \* inbound frames, timer ticks and transport failures of a run
MaxItems == 1       \* items in the data array of one inbound frame
MaxLag == 1         \* messages that wait in the channels while the UI runs
MaxSession == 2     \* data frames of an established session
MaxBatch == 2       \* items in the data array of one frame of such a session
MaxSessionLag == 2  \* messages that wait in the channels during such a session
MaxReducer == 3     \* messages the UI receives in a run of the reducer alone
MaxClose == 3       \* calls of Close on one client

(* Program constants *)

PositionChCap == 100
BalanceChCap == 100
ErrorChCap == 10

Chans == {"positionCh", "balanceCh", "errorCh"}
Cap(ch) == CASE ch = "positionCh" -> PositionChCap
             [] ch = "balanceCh" -> BalanceChCap
             [] ch = "errorCh" -> ErrorChCap

---------------------------------------------------------------------------
(* Names *)

Conns == {"conn", "tickerConn"}
Streams == {<<"conn", "positionCh">>, <<"conn", "balanceCh">>,
            <<"tickerConn", "positionCh">>}
ForkNames == <<"fork1", "fork2", "fork3", "fork4">>
\* A fork is started per written subscription, at most one per inbound frame.
MaxForks == IF MaxEvents < Len(ForkNames) THEN MaxEvents ELSE Len(ForkNames)
Forks == {ForkNames[i] : i \in 1..MaxForks}
Tasks == {"main", "tickerListener", "heartbeat", "tickerHeartbeat"} \cup Forks

HeartbeatOf(c) == IF c = "conn" THEN "heartbeat" ELSE "tickerHeartbeat"

PublicURL == "wss://ws.okx.com:8443/ws/v5/public"
PrivateURL == "wss://ws.okx.com:8443/ws/v5/private"

\* The ten instruments of the demo catalog, in catalog order.
DemoInstruments ==
    << "BTC-USDT-SWAP", "ETH-USDT-SWAP", "SOL-USDT-SWAP", "ADA-USDT-SWAP",
       "DOT-USDT-SWAP", "LINK-USDT-SWAP", "AVAX-USDT-SWAP", "MATIC-USDT-SWAP",
       "UNI-USDT-SWAP", "LTC-USDT-SWAP" >>

Range(s) == {s[i] : i \in 1..Len(s)}

---------------------------------------------------------------------------
(* Numbers.  The float64 fields are fixed-point numbers with two decimals: *)
(* the integer n stands for n / Scale.                                     *)

Scale == 10 * 10
Num(n) == n * Scale
Mul(a, b) == (a * b) \div Scale
Div(a, b) == (a * Scale) \div b

---------------------------------------------------------------------------
(* Records *)

\* core.PositionData.  src and seq are the wire-order stamp of the record:
\* the feed that produced it and its rank among the records that feed
\* decoded for the same channel.
Position(instId, posSide, size, avgPx, curPx, pnl, ratio, lever) ==
    [instId |-> instId, posSide |-> posSide, size |-> size, avgPx |-> avgPx,
     curPx |-> curPx, pnl |-> pnl, ratio |-> ratio, lever |-> lever]

Stamp(rec, src, n) == [rec |-> rec, src |-> src, seq |-> n]

\* core.BalanceData
Balance(ccy, totalEq, availBal) ==
    [ccy |-> ccy, totalEq |-> totalEq, availBal |-> availBal]

\* Fault-channel strings: the literal head of the format string, split at
\* the "DEBUG:" prefix the UI tests for.
Msg(text) == <<text>>
Debug(text) == <<"DEBUG:", text>>
HasDebugPrefix(m) == m[1] = "DEBUG:"

---------------------------------------------------------------------------
(* Frames written to the venue *)

\* authenticate: base64(HMAC-SHA256(secretKey, timestamp + "GET" + path)).
Sign(secretKey) == <<"HMAC-SHA256", secretKey>>

\* authenticate: authMsg, built from the client's credentials.
LoginFrame ==
    [op |-> "login",
     args |-> {<<cred.apiKey, cred.passphrase, "timestamp", Sign(cred.secretKey)>>}]
PingFrame == [op |-> "ping", args |-> {}]
SubscribeFrameOf(args) == [op |-> "subscribe", args |-> args]

PrivateArgs == {<<"positions", "SWAP">>, <<"account", "">>}
TickerArgs(insts) == {<<"tickers", i>> : i \in insts}

---------------------------------------------------------------------------
(* Primitive steps of a task *)

Op(name) == [op |-> name, a |-> "", b |-> <<>>]
Send(ch, v) == [op |-> "send", a |-> ch, b |-> v]
Lock(c) == [op |-> "lock", a |-> c, b |-> <<>>]
Unlock(c) == [op |-> "unlock", a |-> c, b |-> <<>>]
Write(c, frame) == [op |-> "write", a |-> c, b |-> frame]
Close(c) == [op |-> "close", a |-> c, b |-> <<>>]
Go(t, body) == [op |-> "go", a |-> t, b |-> body]
IfErr(then, else) == [op |-> "ifErr", a |-> "", b |-> <<then, else>>]
IfNil(c, then, else) == [op |-> "ifNil", a |-> c, b |-> <<then, else, FALSE>>]
IfNilFail(c, else) == [op |-> "ifNil", a |-> c, b |-> <<<<>>, else, TRUE>>]
End == Op("end")
Read(c) == [op |-> "read", a |-> c, b |-> <<>>]
Tick(c) == [op |-> "tick", a |-> c, b |-> <<>>]

---------------------------------------------------------------------------
(* Inbound JSON.  An object is a function from its keys to string values;  *)
(* an array item that is no object is NotObject.                           *)

NotObject == [notObject |-> "true"]
IsObject(item) == "notObject" \notin DOMAIN item
Has(data, key) == key \in DOMAIN data

\* getString
getString(data, key) == IF Has(data, key) THEN data[key] ELSE ""

\* fmt.Sscanf(s, "%f", &x): the strings of the model that scan as a number,
\* with their value; any other string leaves x as it was.
Scans(s) == s \in {"0", "1", "2", "10", "90", "100", "110", "0.1", "5.5", "-3"}
Scanned(s) ==
    CASE s = "0" -> 0
      [] s = "1" -> Num(1)
      [] s = "2" -> Num(2)
      [] s = "10" -> Num(10)
      [] s = "90" -> Num(90)
      [] s = "100" -> Num(100)
      [] s = "110" -> Num(110)
      [] s = "0.1" -> 10
      [] s = "5.5" -> 550
      [] s = "-3" -> 0 - Num(3)
Sscanf(s, old) == IF Scans(s) THEN Scanned(s) ELSE old

---------------------------------------------------------------------------
(* Stream decoder: the value parsePositionData and parseBalanceData build  *)

Present(data, key) == Has(data, key) /\ data[key] # "" /\ data[key] # "0"

\* Variant of PnLFromPrices: every side is computed as a long.
PnLFromPrices_long(posSide, avgPx, curPx, size) ==
    Mul(curPx - avgPx, size)

PnLFromPrices(posSide, avgPx, curPx, size) ==
    IF posSide = "short" THEN Mul(avgPx - curPx, size)
    ELSE Mul(curPx - avgPx, size)

\* Variant of RatioOf: the ratio is left as a fraction.
RatioOf_fraction(pnl, avgPx, size) == Div(pnl, Mul(avgPx, size))

RatioOf(pnl, avgPx, size) == Div(pnl, Mul(avgPx, size)) * 100

\* Variant of decodePosition: the PnL is always computed from the prices.
decodePosition_computed(data) ==
    LET instId == getString(data, "instId")
        side0 == getString(data, "posSide")
        posSide == IF side0 = "" THEN "long" ELSE side0
        size == IF Has(data, "pos") THEN Sscanf(data["pos"], 0) ELSE Num(1)
        avgPx == IF Has(data, "avgPx") THEN Sscanf(data["avgPx"], 0)
                 ELSE IF Has(data, "last") THEN Sscanf(data["last"], 0) ELSE 0
        curPx == IF Has(data, "markPx") THEN Sscanf(data["markPx"], 0)
                 ELSE IF Has(data, "last") THEN Sscanf(data["last"], 0) ELSE 0
        pnl == IF curPx > 0 /\ avgPx > 0 /\ size > 0
               THEN PnLFromPrices(posSide, avgPx, curPx, size)
               ELSE IF Present(data, "upl") THEN Sscanf(data["upl"], 0)
               ELSE IF Present(data, "pnl") THEN Sscanf(data["pnl"], 0)
               ELSE 0
        ratio == IF Present(data, "uplRatio") THEN Sscanf(data["uplRatio"], 0) * 100
                 ELSE IF Present(data, "pnlRatio") THEN Sscanf(data["pnlRatio"], 0) * 100
                 ELSE IF avgPx > 0 /\ size > 0 THEN RatioOf(pnl, avgPx, size)
                 ELSE 0
        lever == IF Has(data, "lever") THEN Sscanf(data["lever"], 0) ELSE Num(1)
    IN  Position(instId, posSide, size, avgPx, curPx, pnl, ratio, lever)

decodePosition(data) ==
    LET instId == getString(data, "instId")
        side0 == getString(data, "posSide")
        posSide == IF side0 = "" THEN "long" ELSE side0
        size == IF Has(data, "pos") THEN Sscanf(data["pos"], 0) ELSE Num(1)
        avgPx == IF Has(data, "avgPx") THEN Sscanf(data["avgPx"], 0)
                 ELSE IF Has(data, "last") THEN Sscanf(data["last"], 0) ELSE 0
        curPx == IF Has(data, "markPx") THEN Sscanf(data["markPx"], 0)
                 ELSE IF Has(data, "last") THEN Sscanf(data["last"], 0) ELSE 0
        pnlFound == Present(data, "upl") \/ Present(data, "pnl")
        pnl == IF Present(data, "upl") THEN Sscanf(data["upl"], 0)
               ELSE IF Present(data, "pnl") THEN Sscanf(data["pnl"], 0)
               ELSE IF curPx > 0 /\ avgPx > 0 /\ size > 0
                    THEN PnLFromPrices(posSide, avgPx, curPx, size)
               ELSE 0
        ratioFound == Present(data, "uplRatio") \/ Present(data, "pnlRatio")
        ratio == IF Present(data, "uplRatio") THEN Sscanf(data["uplRatio"], 0) * 100
                 ELSE IF Present(data, "pnlRatio") THEN Sscanf(data["pnlRatio"], 0) * 100
                 ELSE IF avgPx > 0 /\ size > 0 THEN RatioOf(pnl, avgPx, size)
                 ELSE 0
        lever == IF Has(data, "lever") THEN Sscanf(data["lever"], 0) ELSE Num(1)
    IN  Position(instId, posSide, size, avgPx, curPx, pnl, ratio, lever)

\* The DEBUG lines parsePositionData sends while it decodes, in order.
decodeDebug(data) ==
    LET p == decodePosition(data)
        pnlFound == Present(data, "upl") \/ Present(data, "pnl")
        ratioFound == Present(data, "uplRatio") \/ Present(data, "pnlRatio")
    IN  (IF Present(data, "upl") THEN <<Send("errorCh", Debug("Using UPL (unrealized PnL)"))>>
         ELSE IF Present(data, "pnl") THEN <<Send("errorCh", Debug("Using PNL (realized PnL)"))>>
         ELSE IF p.curPx > 0 /\ p.avgPx > 0 /\ p.size > 0
              THEN <<Send("errorCh", Debug("Calculated PnL"))>>
         ELSE <<>>)
        \o
        (IF Present(data, "uplRatio") THEN <<Send("errorCh", Debug("Using UPL Ratio"))>>
         ELSE IF Present(data, "pnlRatio") THEN <<Send("errorCh", Debug("Using PNL Ratio"))>>
         ELSE IF p.avgPx > 0 /\ p.size > 0
              THEN <<Send("errorCh", Debug("Calculated PnL ratio"))>>
         ELSE <<>>)

\* parseBalanceData
parseBalanceData(data) ==
    Balance(getString(data, "ccy"),
            IF Has(data, "totalEq") THEN Sscanf(data["totalEq"], 0) ELSE 0,
            IF Has(data, "availBal") THEN Sscanf(data["availBal"], 0) ELSE 0)

---------------------------------------------------------------------------
(* Handlers of the client: the steps of each body, in program order *)

RECURSIVE Concat(_)
Concat(seqs) == IF Len(seqs) = 0 THEN <<>> ELSE Head(seqs) \o Concat(Tail(seqs))

Empty(string) == string = <<>>

\* Variant of authenticate: the login request is logged before it is written.
authenticate_logged ==
    <<Send("errorCh", <<"DEBUG:", "Sending login request", cred.apiKey>>),
      Lock("conn"), Write("conn", LoginFrame), Unlock("conn")>>

\* authenticate: the signed login request, written under connMutex.
authenticate ==
    <<Lock("conn"), Write("conn", LoginFrame), Unlock("conn")>>

\* updateTickerSubscriptions: nil check, then under tickerMutex build the args
\* from currentPositions, log, write.  The lock is released on return.
updateTickerSubscriptions ==
    <<IfNilFail("tickerConn", <<Lock("tickerConn"), Op("buildArgs")>>)>>

\* Variant of buildArgs: the subscription always lists the demo instruments.
buildArgs_fixed ==
    <<Send("errorCh", Debug("Subscribing to ticker channels")),
      Write("tickerConn", SubscribeFrameOf(TickerArgs(Range(DemoInstruments)))),
      Unlock("tickerConn")>>

buildArgs ==
    LET insts == IF currentPositions = {} THEN Range(DemoInstruments)
                 ELSE currentPositions
    IN  <<Send("errorCh", Debug("Subscribing to ticker channels")),
          Write("tickerConn", SubscribeFrameOf(TickerArgs(insts))),
          Unlock("tickerConn")>>

\* The task subscribe forks for the initial ticker subscription.
initialTickerSubscription ==
    updateTickerSubscriptions
    \o <<IfErr(<<Send("errorCh", Msg("Failed to initialize ticker subscriptions"))>>,
               <<>>)>>

\* subscribe: the frame depends on apiKey alone; written under connMutex;
\* on success the initial ticker subscription is forked.
subscribeArgs ==
    IF ~Empty(cred.apiKey) THEN PrivateArgs ELSE TickerArgs(Range(DemoInstruments))

subscribe ==
    <<Lock("conn"), Write("conn", SubscribeFrameOf(subscribeArgs)), Unlock("conn"),
      IfErr(<<>>,
            <<IfNil("tickerConn", <<>>, <<Go("fork", initialTickerSubscription)>>)>>)>>

\* heartbeat / tickerHeartbeat: what one tick of the 25 s ticker runs.
pingFailed(c) ==
    IF c = "conn" THEN Msg("Failed to send ping")
    ELSE Debug("Failed to send ticker ping")

\* Variant of onTick: both heartbeats ping the trading connection.
onTick_tradingOnly(c) ==
    <<IfNil("conn", <<>>,
            <<Lock("conn"), Write("conn", PingFrame), Unlock("conn"),
              IfErr(<<Send("errorCh", pingFailed(c)), End>>, <<>>)>>)>>

\* Variant of onTick: the ping is written without the connection's mutex.
onTick_unlocked(c) ==
    <<IfNil(c, <<>>,
            <<Write(c, PingFrame),
              IfErr(<<Send("errorCh", pingFailed(c)), End>>, <<>>)>>)>>

onTick(c) ==
    <<IfNil(c, <<>>,
            <<Lock(c), Write(c, PingFrame), Unlock(c),
              IfErr(<<Send("errorCh", pingFailed(c)), End>>, <<>>)>>)>>

heartbeat == <<Tick("conn")>>
tickerHeartbeat == <<Tick("tickerConn")>>

\* parsePositionData: the DEBUG lines, then the working-set update with its
\* synchronous re-subscription.
parsePositionData(data) ==
    LET p == decodePosition(data)
    IN  decodeDebug(data)
        \o (IF p.instId # "" /\ p.size > 0
            THEN <<[op |-> "track", a |-> p.instId, b |-> <<>>],
                   IfNil("tickerConn", <<>>,
                         updateTickerSubscriptions
                         \o <<IfErr(<<Send("errorCh",
                                          Msg("Failed to update ticker subscriptions"))>>,
                                    <<>>)>>)>>
            ELSE <<>>)

\* Variant of handleTickerData: the instrument of the ticker is recorded in
\* the working set.
handleTickerData_tracked(data, n) ==
    IF getString(data, "instId") = "" THEN <<>>
    ELSE <<Send("errorCh", Debug("Ticker update")),
           [op |-> "track", a |-> getString(data, "instId"), b |-> <<>>],
           [op |-> "tickerMerge",
            a |-> getString(data, "instId"),
            b |-> <<IF Has(data, "last") THEN Sscanf(data["last"], 0) ELSE 0, n>>]>>

\* handleTickerData: nothing without instId; else the DEBUG line, then the
\* merge step that reads isDemo and demoPositions.
handleTickerData(data, n) ==
    IF getString(data, "instId") = "" THEN <<>>
    ELSE <<Send("errorCh", Debug("Ticker update")),
           [op |-> "tickerMerge",
            a |-> getString(data, "instId"),
            b |-> <<IF Has(data, "last") THEN Sscanf(data["last"], 0) ELSE 0, n>>]>>

---------------------------------------------------------------------------
(* Inbound frames *)

Frame(kind, event, code, hasArg, channel, hasData, items) ==
    [kind |-> kind, event |-> event, code |-> code, hasArg |-> hasArg,
     channel |-> channel, hasData |-> hasData, items |-> items]

Pong == Frame("pong", "", "", FALSE, "", FALSE, <<>>)
BadJSON == Frame("badjson", "", "", FALSE, "", FALSE, <<>>)
Event(event, code) == Frame("json", event, code, FALSE, "", FALSE, <<>>)
Data(channel, items) == Frame("json", "", "", TRUE, channel, TRUE, items)
DataNoArg(items) == Frame("json", "", "", FALSE, "", TRUE, items)
OtherJSON == Frame("json", "", "", FALSE, "", FALSE, <<>>)

\* The items of a data frame that yield a record: the loops skip an item
\* that is no object, handleTickerData one without instId.
IsTicker(item) == IsObject(item) /\ getString(item, "instId") # ""
Rank(items, k) == Cardinality({j \in 1..k : IsObject(items[j])})
TickerRank(items, k) == Cardinality({j \in 1..k : IsTicker(items[j])})

\* Variant of positionItems: the items are handled last to first.
positionItems_reversed(items, base) ==
    Concat([j \in 1..Len(items) |->
        LET k == Len(items) + 1 - j
        IN  IF IsObject(items[k])
            THEN parsePositionData(items[k])
                 \o <<Send("errorCh", Debug("Parsed position data")),
                      Send("positionCh", Stamp(decodePosition(items[k]), "conn",
                                               base + Rank(items, k)))>>
            ELSE <<>>])

\* The records StartListening sends for the items of a data frame; the
\* records are stamped base + 1, base + 2, ... in item order.
positionItems(items, base) ==
    Concat([k \in 1..Len(items) |->
        IF IsObject(items[k])
        THEN parsePositionData(items[k])
             \o <<Send("errorCh", Debug("Parsed position data")),
                  Send("positionCh", Stamp(decodePosition(items[k]), "conn",
                                           base + Rank(items, k)))>>
        ELSE <<>>])

balanceItems(items, base) ==
    Concat([k \in 1..Len(items) |->
        IF IsObject(items[k])
        THEN <<Send("errorCh", Debug("Parsed balance data")),
               Send("balanceCh", Stamp(parseBalanceData(items[k]), "conn",
                                       base + Rank(items, k)))>>
        ELSE <<>>])

\* StartListening: what the loop body does with one frame.
onTradingFrame(f, seq) ==
    IF f.kind = "pong" THEN <<>>
    ELSE IF f.kind = "badjson"
         THEN <<Send("errorCh", Msg("Failed to parse message"))>>
    ELSE IF f.event # ""
         THEN CASE f.event = "login" /\ f.code = "0" ->
                     <<Send("errorCh", Debug("Successfully authenticated with OKX"))>>
                     \o subscribe
                     \o <<IfErr(<<Send("errorCh",
                                      Msg("Subscription failed after authentication"))>>,
                                <<>>)>>
                [] f.event = "login" /\ f.code # "0" ->
                     <<Send("errorCh", Msg("Authentication failed"))>>
                [] f.event = "subscribe" ->
                     <<Send("errorCh", Debug("Successfully subscribed to OKX channels"))>>
                [] f.event = "error" ->
                     <<Send("errorCh", Msg("OKX error received"))>>
                [] OTHER -> <<>>
    ELSE IF f.hasData
         THEN IF f.hasArg
              THEN CASE f.channel = "account" ->
                          <<Send("errorCh", Debug("Received balance items"))>>
                          \o balanceItems(f.items, seq[<<"conn", "balanceCh">>])
                     [] f.channel \in {"positions", "tickers"} ->
                          <<Send("errorCh", Debug("Received position/ticker items"))>>
                          \o positionItems(f.items, seq[<<"conn", "positionCh">>])
                     [] OTHER -> <<>>
              ELSE <<Send("errorCh", Debug("Received data items (fallback)"))>>
                   \o positionItems(f.items, seq[<<"conn", "positionCh">>])
    ELSE <<>>

\* startTickerListener: what the loop body does with one frame.
onTickerFrame(f, base) ==
    IF f.kind = "pong" THEN <<>>
    ELSE IF f.kind = "badjson"
         THEN <<Send("errorCh", Debug("Failed to parse ticker message"))>>
    ELSE IF f.hasData /\ f.hasArg /\ f.channel = "tickers"
         THEN <<Send("errorCh", Debug("Received ticker items"))>>
              \o Concat([k \in 1..Len(f.items) |->
                    IF IsObject(f.items[k])
                    THEN handleTickerData(f.items[k], base + TickerRank(f.items, k))
                    ELSE <<>>])
    ELSE <<>>

\* What each read loop does when ReadMessage fails: report, return, and run
\* the deferred calls (StartListening: conn.Close, then main's client.Close;
\* startTickerListener: tickerConn.Close when it is set).
closeClient == <<IfNil("conn", <<>>, <<Close("conn")>>),
                 IfNil("tickerConn", <<>>, <<Close("tickerConn")>>)>>

\* Variant of onReadError: the trading feed's loop closes its own connection
\* only.
onReadError_own(c) ==
    IF c = "conn"
    THEN <<Send("errorCh", Msg("WebSocket read error")), Close("conn")>>
    ELSE <<Send("errorCh", Debug("Ticker WebSocket read error")),
           IfNil("tickerConn", <<>>, <<Close("tickerConn")>>)>>

onReadError(c) ==
    IF c = "conn"
    THEN <<Send("errorCh", Msg("WebSocket read error")), Close("conn")>> \o closeClient
    ELSE <<Send("errorCh", Debug("Ticker WebSocket read error")),
           IfNil("tickerConn", <<>>, <<Close("tickerConn")>>)>>

StartListening == <<Go("heartbeat", heartbeat), Read("conn")>>
startTickerListener == <<Go("tickerHeartbeat", tickerHeartbeat), Read("tickerConn")>>

---------------------------------------------------------------------------
(* main(): credentials.  A credential string is the sequence of its bytes  *)
(* (len, strings.Contains and the regexp classes all work on bytes); a     *)
(* character outside ASCII takes a lead byte and a continuation byte.      *)

Rep(ch, n) == [i \in 1..n |-> ch]

Contains(string, sub) ==
    \E i \in 0..(Len(string) - Len(sub)) : SubSeq(string, i + 1, i + Len(sub)) = sub

PlaceholderKey == <<"y", "o", "u", "r", "-", "a", "c", "t", "u", "a", "l", "-", "a", "p", "i", "-", "k", "e", "y">>
PlaceholderSecret == <<"y", "o", "u", "r", "-", "a", "c", "t", "u", "a", "l", "-", "a", "p", "i", "-", "s", "e", "c", "r", "e", "t">>
PlaceholderPassphrase == <<"y", "o", "u", "r", "-", "a", "c", "t", "u", "a", "l", "-", "p", "a", "s", "s", "p", "h", "r", "a", "s", "e">>

HexDigits == {"0", "1", "2", "3", "4", "5", "6", "7", "8", "9",
              "a", "b", "c", "d", "e", "f", "A", "B", "C", "D", "E", "F"}

\* ^[a-fA-F0-9]{8}-[a-fA-F0-9]{4}-[a-fA-F0-9]{4}-[a-fA-F0-9]{4}-[a-fA-F0-9]{12}$
MatchesUUID(string) ==
    /\ Len(string) = 8 + 1 + 4 + 1 + 4 + 1 + 4 + 1 + 12
    /\ \A i \in 1..Len(string) :
          IF i \in {9, 14, 19, 24} THEN string[i] = "-" ELSE string[i] \in HexDigits

MinSecretLen == 32

\* Variant of validateAPICredentials: the length of the secret is not tested.
validateAPICredentials_anyLength(apiKey, secretKey, passphrase) ==
    IF \/ Contains(apiKey, PlaceholderKey)
       \/ Contains(secretKey, PlaceholderSecret)
       \/ Contains(passphrase, PlaceholderPassphrase)
    THEN FALSE
    ELSE IF ~MatchesUUID(apiKey) THEN FALSE
    ELSE IF Len(passphrase) = 0 THEN FALSE
    ELSE TRUE

validateAPICredentials(apiKey, secretKey, passphrase) ==
    IF \/ Contains(apiKey, PlaceholderKey)
       \/ Contains(secretKey, PlaceholderSecret)
       \/ Contains(passphrase, PlaceholderPassphrase)
    THEN FALSE
    ELSE IF ~MatchesUUID(apiKey) THEN FALSE
    ELSE IF Len(secretKey) < MinSecretLen THEN FALSE
    ELSE IF Len(passphrase) = 0 THEN FALSE
    ELSE TRUE

Credentials(apiKey, secretKey, passphrase) ==
    [apiKey |-> apiKey, secretKey |-> secretKey, passphrase |-> passphrase]

NoCredentials == Credentials(<<>>, <<>>, <<>>)

UUIDKey == Rep("a", 8) \o <<"-">> \o Rep("1", 4) \o <<"-">> \o Rep("B", 4)
           \o <<"-">> \o Rep("0", 4) \o <<"-">> \o Rep("f", 12)

\* The contents of the environment the runs start from.
Environments ==
    { NoCredentials,
      Credentials(UUIDKey, Rep("s", MinSecretLen), <<"p", "w">>),
      Credentials(UUIDKey, Rep("s", MinSecretLen - 1), <<"p", "w">>),
      Credentials(<<"k", "e", "y">>, Rep("s", MinSecretLen), <<"p", "w">>),
      Credentials(UUIDKey, Rep("s", MinSecretLen), <<>>),
      Credentials(UUIDKey, Rep("s", MinSecretLen), PlaceholderPassphrase) }

---------------------------------------------------------------------------
(* Demo catalog (createDemoPositions) *)

Demo(instId, avgPrice, size, side) ==
    [instId |-> instId, avgPrice |-> avgPrice, size |-> size, side |-> side]

demoInstruments ==
    << Demo("BTC-USDT-SWAP", Num(45000), 10, "long"),
       Demo("ETH-USDT-SWAP", Num(2800), Num(1), "long"),
       Demo("SOL-USDT-SWAP", Num(178), 270, "short"),
       Demo("ADA-USDT-SWAP", 45, Num(1000), "long"),
       Demo("DOT-USDT-SWAP", 680, Num(50), "short"),
       Demo("LINK-USDT-SWAP", 1420, Num(25), "long"),
       Demo("AVAX-USDT-SWAP", 2850, Num(15), "short"),
       Demo("MATIC-USDT-SWAP", 85, Num(500), "long"),
       Demo("UNI-USDT-SWAP", 730, Num(40), "short"),
       Demo("LTC-USDT-SWAP", Num(95), Num(3), "long") >>

demoPosition(demo) ==
    Position(demo.instId, demo.side, demo.size, demo.avgPrice, demo.avgPrice,
             0, 0, Num(10))

demoBalance == Balance("USDT", Num(10000), Num(5000))

\* Variant of createDemoPositions: every position is sent twice.
createDemoPositions_resend ==
    Concat([i \in 1..Len(demoInstruments) |->
        <<[op |-> "storeDemo", a |-> demoInstruments[i].instId,
           b |-> demoPosition(demoInstruments[i])],
          Send("positionCh", Stamp(demoPosition(demoInstruments[i]), "seed", i)),
          Send("positionCh", Stamp(demoPosition(demoInstruments[i]), "seed", i)),
          Send("errorCh", Debug("Created demo position"))>>])
    \o <<Send("balanceCh", Stamp(demoBalance, "seed", 1)),
         Send("errorCh", Debug("Created demo balance"))>>

createDemoPositions ==
    Concat([i \in 1..Len(demoInstruments) |->
        <<[op |-> "storeDemo", a |-> demoInstruments[i].instId,
           b |-> demoPosition(demoInstruments[i])],
          Send("positionCh", Stamp(demoPosition(demoInstruments[i]), "seed", i)),
          Send("errorCh", Debug("Created demo position"))>>])
    \o <<Send("balanceCh", Stamp(demoBalance, "seed", 1)),
         Send("errorCh", Debug("Created demo balance"))>>

---------------------------------------------------------------------------
(* The UI Model and its Update *)

maxDebugLines == 10

\* AddDebugMessage; debugMessages is the number of lines kept.
AddDebugMessage(m) ==
    IF ~m.showDebug THEN m
    ELSE [m EXCEPT !.debugMessages = IF @ < maxDebugLines THEN @ + 1
                                     ELSE maxDebugLines]

\* fmt.Sprintf("%s-%s", msg.InstrumentID, msg.PositionSide)
positionKey(p) == p.instId \o "-" \o p.posSide

\* Variant of mergePrice: the PnL is recomputed whatever the entry holds.
mergePrice_always(position, msg) ==
    LET pnl == PnLFromPrices(position.posSide, position.avgPx, msg.curPx,
                             position.size)
    IN  [position EXCEPT !.curPx = msg.curPx, !.pnl = pnl,
                         !.ratio = IF Mul(position.avgPx, position.size) # 0
                                   THEN RatioOf(pnl, position.avgPx, position.size)
                                   ELSE 0]

\* positionUpdateMsg, ticker branch: the merge of a price into one entry.
mergePrice(position, msg) ==
    IF position.size > 0 /\ position.avgPx > 0
    THEN LET pnl == PnLFromPrices(position.posSide, position.avgPx, msg.curPx,
                                  position.size)
         IN  [position EXCEPT !.curPx = msg.curPx, !.pnl = pnl,
                              !.ratio = RatioOf(pnl, position.avgPx, position.size)]
    ELSE [position EXCEPT !.curPx = msg.curPx]

\* Variant of updatePositions: a price that matches no entry is stored as a
\* new entry.
updatePositions_insert(positions, msg) ==
    IF msg.posSide # "" \/ \A k \in DOMAIN positions : positions[k].instId # msg.instId
    THEN [k \in DOMAIN positions \cup {positionKey(msg)} |->
             IF k = positionKey(msg) THEN msg ELSE positions[k]]
    ELSE [k \in DOMAIN positions |->
             IF positions[k].instId = msg.instId THEN mergePrice(positions[k], msg)
             ELSE positions[k]]

\* Variant of updatePositions: a full record replaces the whole table.
updatePositions_replace(positions, msg) ==
    IF msg.posSide # ""
    THEN [k \in {positionKey(msg)} |-> msg]
    ELSE [k \in DOMAIN positions |->
             IF positions[k].instId = msg.instId THEN mergePrice(positions[k], msg)
             ELSE positions[k]]

\* positionUpdateMsg: the position table after the message.
updatePositions(positions, msg) ==
    IF msg.posSide # ""
    THEN [k \in DOMAIN positions \cup {positionKey(msg)} |->
             IF k = positionKey(msg) THEN msg ELSE positions[k]]
    ELSE [k \in DOMAIN positions |->
             IF positions[k].instId = msg.instId THEN mergePrice(positions[k], msg)
             ELSE positions[k]]

RECURSIVE SumEquity(_, _)
SumEquity(balances, keys) ==
    IF keys = {} THEN 0
    ELSE LET k == CHOOSE x \in keys : TRUE
         IN  balances[k].totalEq + SumEquity(balances, keys \ {k})

\* Variant of updateBalance: the total of the table after the update is stored.
updateBalance_after(m, msg) ==
    LET balances == [k \in DOMAIN m.balances \cup {msg.ccy} |->
                        IF k = msg.ccy THEN msg ELSE m.balances[k]]
        total == SumEquity(balances, DOMAIN balances)
    IN  AddDebugMessage(
          [m EXCEPT !.previousBalance = IF total > 0 THEN total ELSE m.previousBalance,
                    !.balances = balances])

\* balanceUpdateMsg
updateBalance(m, msg) ==
    LET currentTotalBalance == SumEquity(m.balances, DOMAIN m.balances)
    IN  AddDebugMessage(
          [m EXCEPT
             !.previousBalance = IF currentTotalBalance > 0 THEN currentTotalBalance
                                 ELSE m.previousBalance,
             !.balances = [k \in DOMAIN m.balances \cup {msg.ccy} |->
                              IF k = msg.ccy THEN msg ELSE m.balances[k]]])

\* Variant of updateError: every message is shown as the error.
updateError_all(m, msg) ==
    [m EXCEPT !.errorMsg = msg, !.hasError = TRUE]

\* errorMsg
updateError(m, msg) ==
    IF HasDebugPrefix(msg) THEN AddDebugMessage(m)
    ELSE [m EXCEPT !.errorMsg = msg, !.hasError = TRUE]

\* Model.Init: the batch of commands, one receive per channel.
InitCmds == [ch \in Chans |-> 1]

\* Variant of UpdateCmd: a balance update returns no command.
UpdateCmd_balanceOnce(ch) == IF ch = "balanceCh" THEN {} ELSE {ch}

\* Update: the command returned with the model, as the channels whose
\* receive it arms: waitForPositionUpdate after a positionUpdateMsg,
\* waitForBalanceUpdate after a balanceUpdateMsg, waitForError after an
\* errorMsg.
UpdateCmd(ch) ==
    CASE ch = "positionCh" -> {"positionCh"}
      [] ch = "balanceCh" -> {"balanceCh"}
      [] ch = "errorCh" -> {"errorCh"}

\* waiting: the receives pending on each channel.
NewModel ==
    [launched |-> FALSE, running |-> FALSE, positions |-> <<>>, balances |-> <<>>,
     previousBalance |-> 0, errorMsg |-> <<>>, hasError |-> FALSE,
     showDebug |-> FALSE, debugMessages |-> 0,
     waiting |-> [ch \in Chans |-> 0],
     applied |-> [k \in {"positionCh", "balanceCh"} \X {"seed", "conn", "tickerConn"}
                    |-> 0]]

---------------------------------------------------------------------------
(* Initial state: main() has made the channels, godotenv.Load() has loaded *)
(* the .env file without a warning, and the environment has been read.   *)

\* No function is under evaluation.
NoCall == [fn |-> "", args |-> <<>>, returned |-> FALSE, value |-> <<>>]

mainBody == <<Op("validate"), Op("startClient"), Op("connectTicker"),
              Op("connectMode")>>

Init ==
    /\ env \in Environments
    /\ validCredentials = FALSE
    /\ cred = NoCredentials
    /\ isDemo = FALSE
    /\ conn = [c \in Conns |-> "nil"]
    /\ endpoint = ""
    /\ mutex = [c \in Conns |-> "free"]
    /\ writing = [c \in Conns |-> {}]
    /\ written = [c \in Conns |-> <<>>]
    /\ currentPositions = {}
    /\ demoPositions = <<>>
    /\ chans = [ch \in Chans |-> <<>>]
    /\ todo = [t \in Tasks |-> IF t = "main" THEN mainBody ELSE <<>>]
    /\ err = [t \in Tasks |-> FALSE]
    /\ dialed = [c \in Conns |-> "no"]
    /\ connectResult = "none"
    /\ events = 0
    /\ readLog = [c \in Conns |-> <<>>]
    /\ ticks = [c \in Conns |-> 0]
    /\ seqno = [s \in Streams |-> 0]
    /\ call = NoCall
    /\ ui = NewModel

---------------------------------------------------------------------------
(* Steps *)

At(t, name) == Len(todo[t]) > 0 /\ todo[t][1].op = name
Cur(t) == todo[t][1]
Rest(t) == Tail(todo[t])

\* Control flow that touches nothing shared is part of the step before it:
\* if err != nil {...} else {...}, if c.conn == nil {...} else {...} (a
\* transport is nil only until its Dial, which no pending test follows), and
\* the return that ends a goroutine.  The nil branch of
\* updateTickerSubscriptions returns an error.
RECURSIVE Resolve(_, _)
Resolve(steps, e) ==
    IF Len(steps) = 0 THEN [steps |-> steps, err |-> e]
    ELSE CASE steps[1].op = "ifErr" ->
                 Resolve((IF e THEN steps[1].b[1] ELSE steps[1].b[2]) \o Tail(steps), e)
           [] steps[1].op = "ifNil" ->
                 Resolve((IF conn[steps[1].a] = "nil" THEN steps[1].b[1]
                          ELSE steps[1].b[2]) \o Tail(steps),
                         IF conn[steps[1].a] = "nil" /\ steps[1].b[3] THEN TRUE ELSE e)
           [] steps[1].op = "end" -> [steps |-> <<>>, err |-> e]
           [] OTHER -> [steps |-> steps, err |-> e]

Advance(t, steps, e) ==
    /\ todo' = [todo EXCEPT ![t] = Resolve(steps \o Rest(t), e).steps]
    /\ err' = [err EXCEPT ![t] = Resolve(steps \o Rest(t), e).err]

Continue(t, steps) == Advance(t, steps, err[t])

clientVars == <<cred, isDemo, conn, endpoint, currentPositions, demoPositions>>
wireVars == <<mutex, writing, written>>
envVars == <<events, readLog, ticks, seqno, call>>
mainVars == <<env, validCredentials, dialed, connectResult>>

\* main(): validateAPICredentials and the DEBUG lines; when the credentials
\* are not valid the locals are cleared after the lines are sent.
Validate ==
    /\ At("main", "validate")
    /\ LET valid == validateAPICredentials(env.apiKey, env.secretKey, env.passphrase)
       IN  /\ validCredentials' = valid
           /\ Continue("main",
                IF valid
                THEN <<Send("errorCh",
                         Debug("Running in authenticated mode with valid API credentials"))>>
                ELSE <<Send("errorCh",
                         Debug("Running in demo mode - Invalid or missing API credentials")),
                       Send("errorCh",
                         Debug("To use live data, please set valid OKX API credentials in .env file")),
                       Op("clear")>>)
    /\ UNCHANGED <<clientVars, wireVars, envVars, env, chans, dialed, connectResult, ui>>

\* Variant of ClearCredentials: the locals keep the rejected credentials.
ClearCredentials_skip ==
    /\ At("main", "clear")
    /\ Continue("main", <<>>)
    /\ UNCHANGED <<clientVars, wireVars, envVars, mainVars, chans, ui>>

\* main(): apiKey, secretKey, passphrase = "", "", ""
ClearCredentials ==
    /\ At("main", "clear")
    /\ env' = NoCredentials
    /\ Continue("main", <<>>)
    /\ UNCHANGED <<clientVars, wireVars, envVars, validCredentials, dialed,
                   connectResult, chans, ui>>

\* main(): the program is created and run, the client goroutine starts:
\* NewOKXClient, then SetCredentials when the credentials are valid.
SetCredentials(apiKey, secretKey, passphrase) ==
    Credentials(apiKey, secretKey, passphrase)

StartClient ==
    /\ At("main", "startClient")
    /\ ui' = [ui EXCEPT !.launched = TRUE]
    /\ cred' = IF validCredentials
               THEN SetCredentials(env.apiKey, env.secretKey, env.passphrase)
               ELSE cred
    /\ Continue("main", <<>>)
    /\ UNCHANGED <<isDemo, conn, endpoint, currentPositions, demoPositions, wireVars,
                   envVars, mainVars, chans>>

\* Variant of ConnectTicker: a failed dial of the market-data endpoint makes
\* Connect return the error.
ConnectTicker_fatal ==
    /\ At("main", "connectTicker")
    /\ \E ok \in BOOLEAN :
          /\ conn' = [conn EXCEPT !["tickerConn"] = IF ok THEN "open" ELSE "nil"]
          /\ dialed' = [dialed EXCEPT !["tickerConn"] = IF ok THEN "ok" ELSE "fail"]
          /\ todo' = [todo EXCEPT !["main"] =
                IF ok
                THEN <<Send("errorCh", Debug("Ticker WebSocket connection established")),
                       Go("tickerListener", startTickerListener)>> \o Rest("main")
                ELSE <<Send("errorCh", Msg("Failed to connect to ticker WebSocket")),
                       [op |-> "connectReturn", a |-> "error", b |-> <<>>]>>]
    /\ UNCHANGED <<cred, isDemo, endpoint, currentPositions, demoPositions, wireVars,
                   envVars, env, validCredentials, connectResult, chans, err, ui>>

\* Connect, first part, with connectTickerWebSocket: dial the market-data
\* endpoint; on success log and start the listener, on failure report and go on.
ConnectTicker ==
    /\ At("main", "connectTicker")
    /\ \E ok \in BOOLEAN :
          /\ conn' = [conn EXCEPT !["tickerConn"] = IF ok THEN "open" ELSE "nil"]
          /\ dialed' = [dialed EXCEPT !["tickerConn"] = IF ok THEN "ok" ELSE "fail"]
          /\ Continue("main",
               IF ok
               THEN <<Send("errorCh", Debug("Ticker WebSocket connection established")),
                      Go("tickerListener", startTickerListener)>>
               ELSE <<Send("errorCh", Msg("Failed to connect to ticker WebSocket"))>>)
    /\ UNCHANGED <<cred, isDemo, endpoint, currentPositions, demoPositions, wireVars,
                   envVars, env, validCredentials, connectResult, chans, ui>>

AllCredentials == ~Empty(cred.apiKey) /\ ~Empty(cred.secretKey) /\ ~Empty(cred.passphrase)

\* Connect: demo or live from the presence of the three credentials.
ConnectMode ==
    /\ At("main", "connectMode")
    /\ isDemo' = IF AllCredentials THEN isDemo ELSE TRUE
    /\ Continue("main",
         IF AllCredentials
         THEN <<Send("errorCh", Msg("Connecting to OKX private WebSocket")),
                [op |-> "dial", a |-> PrivateURL, b |-> <<>>]>>
         ELSE <<Send("errorCh", Msg("Connecting to OKX public WebSocket"))>>
              \o createDemoPositions
              \o <<[op |-> "dial", a |-> PublicURL, b |-> <<>>]>>)
    /\ UNCHANGED <<cred, conn, endpoint, currentPositions, demoPositions, wireVars,
                   envVars, mainVars, chans, ui>>

\* createDemoPositions: c.demoPositions[instId] = position
StoreDemo ==
    /\ At("main", "storeDemo")
    /\ demoPositions' =
          [k \in DOMAIN demoPositions \cup {Cur("main").a} |->
              IF k = Cur("main").a THEN Cur("main").b ELSE demoPositions[k]]
    /\ Continue("main", <<>>)
    /\ UNCHANGED <<cred, isDemo, conn, endpoint, currentPositions, wireVars, envVars,
                   mainVars, chans, ui>>

\* Variant of connectFirstFrame: the subscription is written inline, right
\* after the login request.
connectFirstFrame_inline ==
    (IF AllCredentials THEN authenticate \o subscribe ELSE subscribe)
    \o <<IfErr(<<Close("conn"), [op |-> "connectReturn", a |-> "error", b |-> <<>>]>>,
               <<[op |-> "connectReturn", a |-> "ok", b |-> <<>>]>>)>>

\* Connect: what follows the dial of the trading endpoint.
connectFirstFrame ==
    (IF AllCredentials THEN authenticate ELSE subscribe)
    \o <<IfErr(<<Close("conn"), [op |-> "connectReturn", a |-> "error", b |-> <<>>]>>,
               <<[op |-> "connectReturn", a |-> "ok", b |-> <<>>]>>)>>

\* Connect: dial the trading endpoint; a failure is returned.
Dial ==
    /\ At("main", "dial")
    /\ \E ok \in BOOLEAN :
          /\ conn' = [conn EXCEPT !["conn"] = IF ok THEN "open" ELSE "nil"]
          /\ dialed' = [dialed EXCEPT !["conn"] = IF ok THEN "ok" ELSE "fail"]
          /\ endpoint' = Cur("main").a
          /\ Continue("main",
               IF ok
               THEN <<Send("errorCh", Msg("WebSocket connection established"))>>
                    \o connectFirstFrame
               ELSE <<[op |-> "connectReturn", a |-> "error", b |-> <<>>]>>)
    /\ UNCHANGED <<cred, isDemo, currentPositions, demoPositions, wireVars, envVars,
                   env, validCredentials, connectResult, chans, ui>>

\* main(): Connect has returned; on an error report it and end, else listen.
ConnectReturn ==
    /\ At("main", "connectReturn")
    /\ connectResult' = Cur("main").a
    /\ Continue("main",
         IF Cur("main").a = "error"
         THEN <<Send("errorCh", Msg("Failed to connect to OKX"))>>
         ELSE StartListening)
    /\ UNCHANGED <<clientVars, wireVars, envVars, env, validCredentials, dialed,
                   chans, ui>>

---------------------------------------------------------------------------
(* Steps every task can take *)

Buffered == Len(chans["positionCh"]) + Len(chans["balanceCh"]) + Len(chans["errorCh"])

\* Variant of SendWithin: a message for a full channel is dropped.
SendWithin_drop(t, lag) ==
    /\ At(t, "send")
    /\ ui.running => Buffered < lag
    /\ chans' = [chans EXCEPT ![Cur(t).a] =
                    IF Len(@) < Cap(Cur(t).a) THEN Append(@, Cur(t).b) ELSE @]
    /\ Continue(t, <<>>)
    /\ UNCHANGED <<clientVars, wireVars, envVars, mainVars, ui>>

\* ch <- v: blocks while the buffer is full.  Once the UI runs it keeps up
\* with the client: the client sends while fewer than lag messages wait.
SendWithin(t, lag) ==
    /\ At(t, "send")
    /\ Len(chans[Cur(t).a]) < Cap(Cur(t).a)
    /\ ui.running => Buffered < lag
    /\ chans' = [chans EXCEPT ![Cur(t).a] = Append(@, Cur(t).b)]
    /\ Continue(t, <<>>)
    /\ UNCHANGED <<clientVars, wireVars, envVars, mainVars, ui>>

SendStep(t) == SendWithin(t, MaxLag)

\* sync.Mutex.Lock: blocks while the mutex is held.
LockStep(t) ==
    /\ At(t, "lock")
    /\ mutex[Cur(t).a] = "free"
    /\ mutex' = [mutex EXCEPT ![Cur(t).a] = t]
    /\ Continue(t, <<>>)
    /\ UNCHANGED <<clientVars, writing, written, envVars, mainVars, chans, ui>>

UnlockStep(t) ==
    /\ At(t, "unlock")
    /\ mutex' = [mutex EXCEPT ![Cur(t).a] = "free"]
    /\ Continue(t, <<>>)
    /\ UNCHANGED <<clientVars, writing, written, envVars, mainVars, chans, ui>>

\* WriteJSON / WriteMessage: the task enters the transport's writer ...
WriteBegin(t) ==
    /\ At(t, "write")
    /\ writing' = [writing EXCEPT ![Cur(t).a] = @ \cup {t}]
    /\ Continue(t, <<[Cur(t) EXCEPT !.op = "writeEnd"]>>)
    /\ UNCHANGED <<clientVars, mutex, written, envVars, mainVars, chans, ui>>

\* ... and leaves it: the frame is on the wire when the transport is up,
\* else the write returns an error.
WriteEnd(t) ==
    /\ At(t, "writeEnd")
    /\ writing' = [writing EXCEPT ![Cur(t).a] = @ \ {t}]
    /\ written' = [written EXCEPT ![Cur(t).a] =
                      IF conn[Cur(t).a] = "open" THEN Append(@, Cur(t).b) ELSE @]
    /\ Advance(t, <<>>, conn[Cur(t).a] # "open")
    /\ UNCHANGED <<clientVars, mutex, envVars, mainVars, chans, ui>>

\* websocket.Conn.Close
CloseStep(t) ==
    /\ At(t, "close")
    /\ conn' = [conn EXCEPT ![Cur(t).a] = "closed"]
    /\ Continue(t, <<>>)
    /\ UNCHANGED <<cred, isDemo, endpoint, currentPositions, demoPositions, wireVars,
                   envVars, mainVars, chans, ui>>

FreeFork ==
    ForkNames[CHOOSE i \in 1..MaxForks :
                 /\ Len(todo[ForkNames[i]]) = 0
                 /\ \A j \in 1..(i - 1) : Len(todo[ForkNames[j]]) > 0]

\* go f(): the heartbeats and the ticker listener are started once; a forked
\* subscription takes a free task.
GoStep(t) ==
    /\ At(t, "go")
    /\ LET target == IF Cur(t).a = "fork" THEN FreeFork ELSE Cur(t).a
       IN  /\ Cur(t).a = "fork" => \E f \in Forks : Len(todo[f]) = 0
           /\ todo' = [todo EXCEPT ![t] = Resolve(Rest(t), err[t]).steps,
                                    ![target] = Resolve(Cur(t).b, FALSE).steps]
           /\ err' = [err EXCEPT ![t] = Resolve(Rest(t), err[t]).err,
                                  ![target] = Resolve(Cur(t).b, FALSE).err]
    /\ UNCHANGED <<clientVars, wireVars, envVars, mainVars, chans, ui>>

\* updateTickerSubscriptions: the args are built from currentPositions.
BuildArgs(t) ==
    /\ At(t, "buildArgs")
    /\ Continue(t, buildArgs)
    /\ UNCHANGED <<clientVars, wireVars, envVars, mainVars, chans, ui>>

\* parsePositionData: c.currentPositions[position.InstrumentID] = true
Track(t) ==
    /\ At(t, "track")
    /\ currentPositions' = currentPositions \cup {Cur(t).a}
    /\ Continue(t, <<>>)
    /\ UNCHANGED <<cred, isDemo, conn, endpoint, demoPositions, wireVars, envVars,
                   mainVars, chans, ui>>

\* Variant of mergeDemo: the PnL is computed as for a long position.
mergeDemo_long(demoPos, lastPrice) ==
    LET pnl == Mul(lastPrice - demoPos.avgPx, demoPos.size)
    IN  [demoPos EXCEPT !.curPx = lastPrice, !.pnl = pnl,
                        !.ratio = IF demoPos.avgPx > 0
                                  THEN RatioOf(pnl, demoPos.avgPx, demoPos.size)
                                  ELSE @]

\* handleTickerData: the demo merge, or the price-only record.
mergeDemo(demoPos, lastPrice) ==
    LET pnl == PnLFromPrices(demoPos.posSide, demoPos.avgPx, lastPrice, demoPos.size)
    IN  [demoPos EXCEPT !.curPx = lastPrice, !.pnl = pnl,
                        !.ratio = IF demoPos.avgPx > 0
                                  THEN RatioOf(pnl, demoPos.avgPx, demoPos.size)
                                  ELSE @]

\* Variant of priceOnly: the record is filled in as parsePositionData fills in
\* a ticker.
priceOnly_long(instId, lastPrice) ==
    Position(instId, "long", Num(1), lastPrice, lastPrice, 0, 0, Num(1))

priceOnly(instId, lastPrice) == Position(instId, "", 0, 0, lastPrice, 0, 0, 0)

TickerMerge(t) ==
    /\ At(t, "tickerMerge")
    /\ LET instId == Cur(t).a
           lastPrice == Cur(t).b[1]
           n == Cur(t).b[2]
           merge == isDemo /\ instId \in DOMAIN demoPositions
       IN  /\ demoPositions' =
                 IF merge
                 THEN [demoPositions EXCEPT ![instId] = mergeDemo(@, lastPrice)]
                 ELSE demoPositions
           /\ Continue(t,
                <<Send("positionCh",
                       Stamp(IF merge THEN mergeDemo(demoPositions[instId], lastPrice)
                             ELSE priceOnly(instId, lastPrice),
                             "tickerConn", n))>>)
    /\ UNCHANGED <<cred, isDemo, conn, endpoint, currentPositions, wireVars, envVars,
                   mainVars, chans, ui>>

---------------------------------------------------------------------------
(* The venue: the frames it may send, the transports it may drop *)

Seqs(S, n) == UNION {[1..k -> S] : k \in 0..n}

PositionItem ==
    [instId |-> "BTC-USDT-SWAP", posSide |-> "long", pos |-> "2",
     avgPx |-> "100", markPx |-> "110"]
BalanceItem == [ccy |-> "USDT", totalEq |-> "100", availBal |-> "90"]
TickerItem == [instId |-> "BTC-USDT-SWAP", last |-> "90"]

PositionItems == {PositionItem, NotObject}
BalanceItems == {BalanceItem}
TickerItems == {TickerItem, [last |-> "110"]}

\* The items of the frames of an established session.
SessionPositionItems ==
    {PositionItem,
     [instId |-> "ETH-USDT-SWAP", posSide |-> "short", pos |-> "1",
      avgPx |-> "100", markPx |-> "90"]}
SessionTickerItems ==
    {TickerItem, [instId |-> "SOL-USDT-SWAP", last |-> "100"]}

Subscribed(c, args) ==
    \E i \in 1..Len(written[c]) :
       written[c][i].op = "subscribe" /\ args \subseteq written[c][i].args

LoggedIn(c) == \E i \in 1..Len(written[c]) : written[c][i].op = "login"

\* Data follows its subscription: the private channels on the trading feed,
\* the tickers channel on a feed that subscribed to it.
DataFrames(c, positions, balances, tickers, n) ==
    (IF c = "conn" /\ Subscribed(c, PrivateArgs)
     THEN {Data("positions", items) : items \in Seqs(positions, n)}
          \cup {Data("account", items) : items \in Seqs(balances, n)}
     ELSE {})
    \cup (IF \E i \in 1..Len(written[c]) :
                written[c][i].op = "subscribe"
                /\ \E a \in written[c][i].args : a[1] = "tickers"
          THEN {Data("tickers", items) : items \in Seqs(tickers, n)}
          ELSE {})

\* Frames the venue sends unasked, and the answers to what was written: a
\* login acknowledgement follows a login, data follows its subscription.
InboundFrames(c) ==
    {Pong, BadJSON, Event("error", "60012"), OtherJSON}
    \cup (IF c = "conn" /\ LoggedIn(c)
          THEN {Event("login", "60009")}
               \cup (IF \E f \in Forks : Len(todo[f]) = 0
                     THEN {Event("login", "0")} ELSE {})
          ELSE {})
    \cup (IF \E i \in 1..Len(written[c]) : written[c][i].op = "subscribe"
          THEN {Event("subscribe", "")} ELSE {})
    \cup DataFrames(c, PositionItems, BalanceItems, TickerItems, MaxItems)

\* The data frames of an established session.
SessionFrames(c) ==
    DataFrames(c, SessionPositionItems, BalanceItems, SessionTickerItems, MaxBatch)

FrameTag(f) == <<f.kind, f.event, f.code>>
ReadFailed == <<"err", "", "">>

\* The stream a frame's records go to, and how many records it yields.
StreamOf(c, f) ==
    IF c = "tickerConn" THEN <<"tickerConn", "positionCh">>
    ELSE IF f.hasArg /\ f.channel = "account" THEN <<"conn", "balanceCh">>
    ELSE <<"conn", "positionCh">>

Yield(c, f) ==
    IF f.kind # "json" \/ f.event # "" \/ ~f.hasData THEN 0
    ELSE IF c = "tickerConn"
         THEN IF f.hasArg /\ f.channel = "tickers"
              THEN TickerRank(f.items, Len(f.items)) ELSE 0
    ELSE IF f.hasArg /\ f.channel \notin {"account", "positions", "tickers"} THEN 0
    ELSE Rank(f.items, Len(f.items))

\* ReadMessage returns a frame: the loop body runs, then the loop reads again.
ReadFrom(t, frames, limit) ==
    /\ At(t, "read")
    /\ conn[Cur(t).a] = "open"
    /\ events < limit
    /\ \E f \in frames :
          /\ readLog' = [readLog EXCEPT ![Cur(t).a] = Append(@, FrameTag(f))]
          /\ seqno' = [seqno EXCEPT ![StreamOf(Cur(t).a, f)] = @ + Yield(Cur(t).a, f)]
          /\ Advance(t, (IF Cur(t).a = "conn" THEN onTradingFrame(f, seqno)
                          ELSE onTickerFrame(f, seqno[<<"tickerConn", "positionCh">>]))
                         \o <<Read(Cur(t).a)>>, err[t])
    /\ events' = events + 1
    /\ UNCHANGED <<clientVars, wireVars, ticks, call, mainVars, chans, ui>>

ReadFrame(t) == ReadFrom(t, InboundFrames(Cur(t).a), MaxEvents)

\* ReadMessage returns an error: the transport is down or was closed.
ReadError(t) ==
    /\ At(t, "read")
    /\ conn[Cur(t).a] \in {"broken", "closed"}
    /\ readLog' = [readLog EXCEPT ![Cur(t).a] = Append(@, ReadFailed)]
    /\ todo' = [todo EXCEPT ![t] = Resolve(onReadError(Cur(t).a), err[t]).steps]
    /\ UNCHANGED <<clientVars, wireVars, events, ticks, seqno, call, mainVars, chans,
                   err, ui>>

\* <-ticker.C: one 25 s interval has elapsed for the waiting heartbeat.
TickStep(t) ==
    /\ At(t, "tick")
    /\ events < MaxEvents
    /\ events' = events + 1
    /\ ticks' = [ticks EXCEPT ![Cur(t).a] = @ + 1]
    /\ Advance(t, onTick(Cur(t).a) \o <<Tick(Cur(t).a)>>, err[t])
    /\ UNCHANGED <<clientVars, wireVars, readLog, seqno, call, mainVars, chans, ui>>

\* The network drops a transport.
TransportFail(c) ==
    /\ conn[c] = "open"
    /\ events < MaxEvents
    /\ events' = events + 1
    /\ conn' = [conn EXCEPT ![c] = "broken"]
    /\ UNCHANGED <<cred, isDemo, endpoint, currentPositions, demoPositions, wireVars,
                   readLog, ticks, seqno, call, mainVars, chans, todo, err, ui>>

---------------------------------------------------------------------------
(* The UI: one pending receive per channel, its message handled by Update *)

\* Variant of Update: a price that matches no stored position leaves the
\* error as it is.
Update_clearOnMatch(m, ch, msg) ==
    CASE ch = "positionCh" ->
            LET logged == \/ msg.rec.posSide # ""
                          \/ \E k \in DOMAIN m.positions :
                                m.positions[k].instId = msg.rec.instId
                m1 == [m EXCEPT !.positions = updatePositions(@, msg.rec)]
            IN  IF logged
                THEN [AddDebugMessage(m1) EXCEPT
                        !.errorMsg = <<>>, !.hasError = FALSE,
                        !.applied[<<ch, msg.src>>] = msg.seq]
                ELSE [m1 EXCEPT !.applied[<<ch, msg.src>>] = msg.seq]
      [] ch = "balanceCh" ->
            [updateBalance(m, msg.rec) EXCEPT !.applied[<<ch, msg.src>>] = msg.seq]
      [] ch = "errorCh" -> updateError(m, msg)

Update(m, ch, msg) ==
    CASE ch = "positionCh" ->
            LET logged == \/ msg.rec.posSide # ""
                          \/ \E k \in DOMAIN m.positions :
                                m.positions[k].instId = msg.rec.instId
                m1 == [m EXCEPT !.positions = updatePositions(@, msg.rec)]
            IN  [(IF logged THEN AddDebugMessage(m1) ELSE m1) EXCEPT
                    !.errorMsg = <<>>, !.hasError = FALSE,
                    !.applied[<<ch, msg.src>>] = msg.seq]
      [] ch = "balanceCh" ->
            [updateBalance(m, msg.rec) EXCEPT !.applied[<<ch, msg.src>>] = msg.seq]
      [] ch = "errorCh" -> updateError(m, msg)

\* main(): program.Run, on the main thread, after the client goroutine
\* started.  The receives start before the client's first step, or late,
\* when the client has filled the fault channel.
RunProgram ==
    /\ ui.launched
    /\ ~ui.running
    /\ At("main", "connectTicker") \/ Len(chans["errorCh"]) = ErrorChCap
    /\ ui' = [ui EXCEPT !.running = TRUE, !.waiting = InitCmds]
    /\ UNCHANGED <<clientVars, wireVars, envVars, mainVars, chans, todo, err>>

UiRecv(ch) ==
    /\ ui.running
    /\ Len(chans[ch]) > 0
    /\ ui.waiting[ch] > 0
    /\ ui' = [Update(ui, ch, Head(chans[ch])) EXCEPT
                !.waiting = [c \in Chans |->
                               ui.waiting[c] - (IF c = ch THEN 1 ELSE 0)
                               + (IF c \in UpdateCmd(ch) THEN 1 ELSE 0)]]
    /\ chans' = [chans EXCEPT ![ch] = Tail(@)]
    /\ UNCHANGED <<clientVars, wireVars, envVars, mainVars, todo, err>>

---------------------------------------------------------------------------

TaskStep(t) ==
    \/ SendStep(t) \/ LockStep(t) \/ UnlockStep(t) \/ WriteBegin(t) \/ WriteEnd(t)
    \/ CloseStep(t) \/ GoStep(t)
    \/ BuildArgs(t) \/ Track(t) \/ TickerMerge(t)
    \/ ReadFrame(t) \/ ReadError(t) \/ TickStep(t)

Next ==
    \/ Validate \/ ClearCredentials \/ StartClient \/ ConnectTicker \/ ConnectMode \/ StoreDemo
    \/ Dial \/ ConnectReturn
    \/ \E t \in Tasks : TaskStep(t)
    \/ \E c \in Conns : TransportFail(c)
    \/ RunProgram
    \/ \E ch \in Chans : UiRecv(ch)

Spec == Init /\ [][Next]_vars

---------------------------------------------------------------------------
(* An established session: the state the client and the UI are in once     *)
(* Connect has succeeded, the first answer of the venue has been read, the *)
(* initial ticker subscription is written and the UI has handled every     *)
(* message; then data frames only.                                         *)

ValidEnvironment == Credentials(UUIDKey, Rep("s", MinSecretLen), <<"p", "w">>)

seededPositions ==
    [k \in {positionKey(demoPosition(demoInstruments[i])) : i \in 1..Len(demoInstruments)} |->
        demoPosition(CHOOSE d \in Range(demoInstruments) :
                        positionKey(demoPosition(d)) = k)]

seededDemo ==
    [k \in Range(DemoInstruments) |->
        demoPosition(CHOOSE d \in Range(demoInstruments) : d.instId = k)]

Established(live) ==
    /\ env = IF live THEN ValidEnvironment ELSE NoCredentials
    /\ validCredentials = live
    /\ cred = IF live THEN ValidEnvironment ELSE NoCredentials
    /\ isDemo = ~live
    /\ conn = [c \in Conns |-> "open"]
    /\ endpoint = IF live THEN PrivateURL ELSE PublicURL
    /\ mutex = [c \in Conns |-> "free"]
    /\ writing = [c \in Conns |-> {}]
    /\ written =
          [c \in Conns |->
             IF c = "tickerConn"
             THEN <<SubscribeFrameOf(TickerArgs(Range(DemoInstruments)))>>
             ELSE IF live THEN <<LoginFrame, SubscribeFrameOf(PrivateArgs)>>
             ELSE <<SubscribeFrameOf(TickerArgs(Range(DemoInstruments)))>>]
    /\ currentPositions = {}
    /\ demoPositions = IF live THEN <<>> ELSE seededDemo
    /\ chans = [ch \in Chans |-> <<>>]
    /\ todo = [t \in Tasks |->
                 CASE t = "main" -> <<Read("conn")>>
                   [] t = "tickerListener" -> <<Read("tickerConn")>>
                   [] t = "heartbeat" -> heartbeat
                   [] t = "tickerHeartbeat" -> tickerHeartbeat
                   [] OTHER -> <<>>]
    /\ err = [t \in Tasks |-> FALSE]
    /\ dialed = [c \in Conns |-> "ok"]
    /\ connectResult = "ok"
    /\ readLog = [c \in Conns |->
                    IF c = "tickerConn" THEN <<>>
                    ELSE IF live THEN <<FrameTag(Event("login", "0"))>>
                    ELSE <<FrameTag(Event("subscribe", ""))>>]
    /\ ticks = [c \in Conns |-> 0]
    /\ seqno = [s \in Streams |-> 0]
    /\ call = NoCall
    /\ ui = [NewModel EXCEPT
               !.launched = TRUE, !.running = TRUE, !.waiting = InitCmds,
               !.errorMsg = Msg("WebSocket connection established"),
               !.hasError = TRUE,
               !.positions = IF live THEN <<>> ELSE seededPositions,
               !.balances = IF live THEN <<>>
                            ELSE [k \in {demoBalance.ccy} |-> demoBalance],
               !.applied = [k \in DOMAIN NewModel.applied |->
                              IF live THEN 0
                              ELSE IF k = <<"positionCh", "seed">>
                                   THEN Len(demoInstruments)
                              ELSE IF k = <<"balanceCh", "seed">> THEN 1
                              ELSE 0]]

InitSession ==
    /\ \E live \in BOOLEAN : Established(live)
    /\ events = 1

SessionRead(t) == ReadFrom(t, SessionFrames(Cur(t).a), 1 + MaxSession)

SessionSend(t) == SendWithin(t, MaxSessionLag)

SessionStep(t) ==
    \/ SessionSend(t) \/ LockStep(t) \/ UnlockStep(t) \/ WriteBegin(t) \/ WriteEnd(t)
    \/ BuildArgs(t) \/ Track(t) \/ TickerMerge(t)
    \/ SessionRead(t)

NextSession ==
    \/ \E t \in Tasks : SessionStep(t)
    \/ \E ch \in Chans : UiRecv(ch)

SpecSession == InitSession /\ [][NextSession]_vars

---------------------------------------------------------------------------
(* Credential validation on its own: main() from the environment read to   *)
(* the moment the client goroutine is started, for a wider set of          *)
(* credentials.                                                            *)

\* The two bytes of a character outside ASCII.
LeadByte == "\\xC3"
ContinuationByte == "\\xA9"

ValidateKeys ==
    { UUIDKey, <<>>, <<"k", "e", "y">>, PlaceholderKey,
      [UUIDKey EXCEPT ![1] = "g"],          \* a letter that is no hex digit
      [UUIDKey EXCEPT ![9] = "a"],          \* no dash after the first group
      UUIDKey \o <<"0">> }                  \* a thirteenth digit in the last group

ValidateSecrets ==
    { <<>>, Rep("s", MinSecretLen - 1), Rep("s", MinSecretLen), Rep("s", MinSecretLen + 1),
      PlaceholderSecret,
      PlaceholderSecret \o Rep("s", MinSecretLen - Len(PlaceholderSecret)),
      \* sixteen two-byte characters
      [i \in 1..MinSecretLen |-> IF i % 2 = 1 THEN LeadByte ELSE ContinuationByte] }

ValidatePassphrases ==
    { <<>>, <<"p", "w">>, PlaceholderPassphrase, <<"x">> \o PlaceholderPassphrase }

InitValidate ==
    /\ env \in {Credentials(k, x, p) :
                   k \in ValidateKeys, x \in ValidateSecrets, p \in ValidatePassphrases}
    /\ validCredentials = FALSE
    /\ cred = NoCredentials
    /\ isDemo = FALSE
    /\ conn = [c \in Conns |-> "nil"]
    /\ endpoint = ""
    /\ mutex = [c \in Conns |-> "free"]
    /\ writing = [c \in Conns |-> {}]
    /\ written = [c \in Conns |-> <<>>]
    /\ currentPositions = {}
    /\ demoPositions = <<>>
    /\ chans = [ch \in Chans |-> <<>>]
    /\ todo = [t \in Tasks |-> IF t = "main" THEN mainBody ELSE <<>>]
    /\ err = [t \in Tasks |-> FALSE]
    /\ dialed = [c \in Conns |-> "no"]
    /\ connectResult = "none"
    /\ events = 0
    /\ readLog = [c \in Conns |-> <<>>]
    /\ ticks = [c \in Conns |-> 0]
    /\ seqno = [s \in Streams |-> 0]
    /\ call = NoCall
    /\ ui = NewModel

NextValidate == Validate \/ SendStep("main") \/ ClearCredentials

SpecValidate == InitValidate /\ [][NextValidate]_vars

---------------------------------------------------------------------------
(* The reducer on its own: a live session whose UI receives any short      *)
(* sequence of the records and fault messages the client can send, and the *)
(* d key.                                                                  *)

\* A position of an account in net mode: posSide is "net".
NetItem ==
    [instId |-> "BTC-USDT-SWAP", posSide |-> "net", pos |-> "2", avgPx |-> "100",
     markPx |-> "110"]

\* In net mode a short position is reported with a negative pos.
NetShortItem == [NetItem EXCEPT !.pos = "-3"]

EntryItems ==
    {[instId |-> "BTC-USDT-SWAP", posSide |-> side, pos |-> pos, avgPx |-> avgPx,
      markPx |-> "110"] :
        side \in {"long", "short"}, pos \in {"2", "0"}, avgPx \in {"100", "abc"}}
    \cup {[instId |-> "BTC-USDT-SWAP", posSide |-> side, pos |-> pos, avgPx |-> avgPx,
           markPx |-> "110", upl |-> "5.5"] :
             side \in {"long", "short"}, pos \in {"2", "0"}, avgPx \in {"100", "abc"}}
    \cup {[instId |-> "ETH-USDT-SWAP", posSide |-> "long", pos |-> "2",
           avgPx |-> "100", markPx |-> "110"]}

PriceRecords ==
    {priceOnly("BTC-USDT-SWAP", Scanned("90")), priceOnly("BTC-USDT-SWAP", Scanned("100")),
     priceOnly("ETH-USDT-SWAP", Scanned("90")), priceOnly("SOL-USDT-SWAP", Scanned("90"))}

AccountItems ==
    {[ccy |-> "USDT", totalEq |-> "100", availBal |-> "90"],
     [ccy |-> "USDT", totalEq |-> "0", availBal |-> "0"],
     [ccy |-> "BTC", totalEq |-> "2", availBal |-> "1"]}

FaultMessages ==
    {Debug("Received ticker items"), Msg("OKX error received"),
     Msg("Failed to parse message")}

\* What the client can have sent on a channel, stamped n.
Arrivals(ch, n) ==
    CASE ch = "positionCh" ->
            {Stamp(decodePosition(item), "conn", n) :
                item \in EntryItems \cup {NetShortItem}}
            \cup {Stamp(rec, "tickerConn", n) : rec \in PriceRecords}
      [] ch = "balanceCh" ->
            {Stamp(parseBalanceData(item), "conn", n) : item \in AccountItems}
      [] ch = "errorCh" -> FaultMessages

\* The client sends a message; the UI keeps up, so the channels are empty.
Arrive(ch) ==
    /\ events < MaxReducer
    /\ \A c \in Chans : chans[c] = <<>>
    /\ \E msg \in Arrivals(ch, events + 1) : chans' = [chans EXCEPT ![ch] = <<msg>>]
    /\ events' = events + 1
    /\ UNCHANGED <<clientVars, wireVars, readLog, ticks, seqno, call, mainVars, todo,
                   err, ui>>

\* Update, tea.KeyMsg "d": toggle the debug view; turning it off clears it.
toggleDebug(m) ==
    [m EXCEPT !.showDebug = ~m.showDebug,
              !.debugMessages = IF m.showDebug THEN 0 ELSE m.debugMessages]

KeyD ==
    /\ ui.running
    /\ ui' = toggleDebug(ui)
    /\ UNCHANGED <<clientVars, wireVars, envVars, mainVars, chans, todo, err>>

InitReducer == Established(TRUE) /\ events = 0

NextReducer ==
    \/ \E ch \in Chans : Arrive(ch)
    \/ \E ch \in Chans : UiRecv(ch)
    \/ KeyD

SpecReducer == InitReducer /\ [][NextReducer]_vars

---------------------------------------------------------------------------
(* The decoder and the two price merges on their own: one call of          *)
(* parsePositionData, parseBalanceData, handleTickerData's demo merge or   *)
(* Update's price merge, on arguments drawn from the sets below.           *)

Absent == "(absent)"

\* The JSON object with the fields of the choice that are not absent.
Object(choice) == [k \in {f \in DOMAIN choice : choice[f] # Absent} |-> choice[k]]

PositionObjects ==
    {Object([instId |-> "BTC-USDT-SWAP", posSide |-> posSide, pos |-> pos,
             avgPx |-> avgPx, markPx |-> markPx, last |-> last, upl |-> upl,
             pnl |-> pnl, uplRatio |-> uplRatio, lever |-> lever]) :
        posSide \in {Absent, "long", "short"},
        pos \in {Absent, "2", "0", "-3", "abc"},
        avgPx \in {Absent, "100", "abc"},
        markPx \in {Absent, "110", "90", "abc"},
        last \in {Absent, "90"},
        upl \in {Absent, "5.5", "0", "", "abc"},
        pnl \in {Absent, "-3"},
        uplRatio \in {Absent, "0.1"},
        lever \in {Absent, "10", "abc"}}

BalanceObjects ==
    {Object([ccy |-> "USDT", totalEq |-> totalEq, availBal |-> availBal]) :
        totalEq \in {Absent, "100", "0", "abc"},
        availBal \in {Absent, "90", "abc"}}

LastPrices ==
    {Scanned(last) :
        last \in {"0", "1", "2", "10", "90", "100", "110", "0.1", "5.5", "-3"}}

\* A closed position the server still reports with a ratio.
ClosedItem ==
    [instId |-> "BTC-USDT-SWAP", posSide |-> "long", pos |-> "0", avgPx |-> "100",
     markPx |-> "110", uplRatio |-> "0.1"]

Call(fn, args) == [fn |-> fn, args |-> args, returned |-> FALSE, value |-> <<>>]

Calls ==
    {Call("parsePositionData", <<data>>) : data \in PositionObjects \cup {NetItem}}
    \cup {Call("parseBalanceData", <<data>>) : data \in BalanceObjects}
    \cup {Call("handleTickerData", <<demoPosition(demoInstruments[i]), lastPrice>>) :
             i \in 1..Len(demoInstruments), lastPrice \in LastPrices}
    \cup {Call("Update", <<decodePosition(item), msg>>) :
             item \in EntryItems \cup {ClosedItem},
             msg \in PriceRecords \cup {priceOnly("BTC-USDT-SWAP", Scanned("110"))}}

Return(fn, value) ==
    /\ call.fn = fn
    /\ ~call.returned
    /\ call' = [call EXCEPT !.returned = TRUE, !.value = value]
    /\ UNCHANGED <<clientVars, wireVars, events, readLog, ticks, seqno, mainVars,
                   chans, todo, err, ui>>

ParsePosition == Return("parsePositionData", decodePosition(call.args[1]))
ParseBalance == Return("parseBalanceData", parseBalanceData(call.args[1]))
MergeDemo == Return("handleTickerData", mergeDemo(call.args[1], call.args[2]))
MergePrice == Return("Update", mergePrice(call.args[1], call.args[2]))

InitCall ==
    /\ call \in Calls
    /\ env = NoCredentials
    /\ validCredentials = FALSE
    /\ cred = NoCredentials
    /\ isDemo = FALSE
    /\ conn = [c \in Conns |-> "nil"]
    /\ endpoint = ""
    /\ mutex = [c \in Conns |-> "free"]
    /\ writing = [c \in Conns |-> {}]
    /\ written = [c \in Conns |-> <<>>]
    /\ currentPositions = {}
    /\ demoPositions = <<>>
    /\ chans = [ch \in Chans |-> <<>>]
    /\ todo = [t \in Tasks |-> IF t = "main" THEN mainBody ELSE <<>>]
    /\ err = [t \in Tasks |-> FALSE]
    /\ dialed = [c \in Conns |-> "no"]
    /\ connectResult = "none"
    /\ events = 0
    /\ readLog = [c \in Conns |-> <<>>]
    /\ ticks = [c \in Conns |-> 0]
    /\ seqno = [s \in Streams |-> 0]
    /\ ui = NewModel

NextCall == ParsePosition \/ ParseBalance \/ MergeDemo \/ MergePrice

SpecCall == InitCall /\ [][NextCall]_vars

---------------------------------------------------------------------------
(* Two runs of a handler of the client that differ in the credentials the  *)
(* client holds: the body is evaluated for the first credentials, then for *)
(* the second, on the same inbound frame and in the same client state.     *)

OtherEnvironment ==
    Credentials(Rep("0", 8) \o <<"-">> \o Rep("c", 4) \o <<"-">> \o Rep("D", 4)
                \o <<"-">> \o Rep("9", 4) \o <<"-">> \o Rep("e", 12),
                Rep("t", MinSecretLen + 1), <<"q">>)

Other(credentials) ==
    IF credentials = ValidEnvironment THEN OtherEnvironment ELSE ValidEnvironment

\* The frames a read loop can be handed.
TwinFrames ==
    {Pong, BadJSON, OtherJSON, Event("login", "0"), Event("login", "60009"),
     Event("subscribe", ""), Event("error", "60012")}
    \cup {Data("positions", items) : items \in Seqs(SessionPositionItems \cup {NotObject}, 1)}
    \cup {Data("account", items) : items \in Seqs(BalanceItems, 1)}
    \cup {Data("tickers", items) : items \in Seqs(TickerItems, 1)}
    \cup {Data("orders", <<PositionItem>>), DataNoArg(<<PositionItem>>)}

\* The handlers called: those without a parameter, those of a frame, those
\* of a connection.
TwinCalls ==
    {Call(fn, <<>>) : fn \in {"authenticate", "subscribe", "connectFirstFrame",
                              "initialTickerSubscription", "buildArgs"}}
FrameCalls ==
    {Call(fn, <<f>>) : fn \in {"onTradingFrame", "onTickerFrame"}, f \in TwinFrames}
ConnCalls ==
    {Call(fn, <<c>>) : fn \in {"onReadError", "onTick"}, c \in Conns}

\* The steps of the handler called, for the credentials the client holds.
Body ==
    CASE call.fn = "authenticate" -> authenticate
      [] call.fn = "subscribe" -> subscribe
      [] call.fn = "connectFirstFrame" -> connectFirstFrame
      [] call.fn = "initialTickerSubscription" -> initialTickerSubscription
      [] call.fn = "buildArgs" -> buildArgs
      [] call.fn = "onTradingFrame" -> onTradingFrame(call.args[1], seqno)
      [] call.fn = "onTickerFrame" ->
            onTickerFrame(call.args[1], seqno[<<"tickerConn", "positionCh">>])
      [] call.fn = "onReadError" -> onReadError(call.args[1])
      [] call.fn = "onTick" -> onTick(call.args[1])

\* The first run; the second starts with the other credentials set.
FirstRun ==
    /\ ~call.returned
    /\ Len(call.value) = 0
    /\ call' = [call EXCEPT !.value = <<Body>>]
    /\ env' = Other(env)
    /\ cred' = SetCredentials(env'.apiKey, env'.secretKey, env'.passphrase)
    /\ UNCHANGED <<isDemo, conn, endpoint, currentPositions, demoPositions, wireVars,
                   events, readLog, ticks, seqno, validCredentials, dialed,
                   connectResult, chans, todo, err, ui>>

SecondRun ==
    /\ ~call.returned
    /\ Len(call.value) = 1
    /\ call' = [call EXCEPT !.value = Append(@, Body), !.returned = TRUE]
    /\ UNCHANGED <<clientVars, wireVars, events, readLog, ticks, seqno, mainVars,
                   chans, todo, err, ui>>

InitTwin ==
    /\ \/ call \in TwinCalls
       \/ call \in FrameCalls
       \/ call \in ConnCalls
    /\ env \in {ValidEnvironment, OtherEnvironment}
    /\ validCredentials = TRUE
    /\ cred = SetCredentials(env.apiKey, env.secretKey, env.passphrase)
    /\ isDemo = FALSE
    /\ conn \in [Conns -> {"open", "nil"}]
    /\ conn["conn"] = "open"
    /\ endpoint = PrivateURL
    /\ mutex = [c \in Conns |-> "free"]
    /\ writing = [c \in Conns |-> {}]
    /\ written = [c \in Conns |-> <<>>]
    /\ currentPositions \in {{}, {"ETH-USDT-SWAP"}}
    /\ demoPositions = <<>>
    /\ chans = [ch \in Chans |-> <<>>]
    /\ todo = [t \in Tasks |-> <<>>]
    /\ err = [t \in Tasks |-> FALSE]
    /\ dialed = [c \in Conns |-> IF conn[c] = "open" THEN "ok" ELSE "fail"]
    /\ connectResult = "none"
    /\ events = 0
    /\ readLog = [c \in Conns |-> <<>>]
    /\ ticks = [c \in Conns |-> 0]
    /\ seqno = [s \in Streams |-> 0]
    /\ ui = NewModel

NextTwin == FirstRun \/ SecondRun

SpecTwin == InitTwin /\ [][NextTwin]_vars

---------------------------------------------------------------------------
(* Close on its own: the client with each connection unset, open, dropped  *)
(* by the network or already closed (StartListening and the ticker         *)
(* listener close their connection when they return).                      *)

\* What websocket.Conn.Close can return: the close of the network
\* connection fails on a connection that is already closed, and may fail on
\* any other.
CloseOutcomes(state) == IF state = "closed" THEN {"fail"} ELSE {"ok", "fail"}

\* Close: err after both connections were handled, as the connection whose
\* closeErr it holds, or "nil".
closeErr(conns, outcome) ==
    LET err1 == IF conns["conn"] # "nil" /\ outcome["conn"] = "fail"
                THEN "conn" ELSE "nil"
    IN  IF conns["tickerConn"] # "nil" /\ outcome["tickerConn"] = "fail"
        THEN (IF err1 = "nil" THEN "tickerConn" ELSE err1)
        ELSE err1

\* One call of Close, from its entry to its return.
CloseCall ==
    /\ call.fn = "Close"
    /\ Len(call.value) < MaxClose
    /\ Len(todo["main"]) = 0
    /\ \E outcome \in [Conns -> {"ok", "fail"}] :
          /\ \A c \in Conns : outcome[c] \in CloseOutcomes(conn[c])
          /\ call' = [call EXCEPT
                        !.returned = TRUE,
                        !.value = Append(@, [before |-> conn, outcome |-> outcome,
                                             err |-> closeErr(conn, outcome)])]
    /\ conn' = [c \in Conns |-> IF conn[c] = "nil" THEN "nil" ELSE "closed"]
    /\ UNCHANGED <<cred, isDemo, endpoint, currentPositions, demoPositions, wireVars,
                   events, readLog, ticks, seqno, mainVars, chans, todo, err, ui>>

InitClose ==
    /\ call = Call("Close", <<>>)
    /\ conn \in [Conns -> {"nil", "open", "broken", "closed"}]
    /\ todo \in {[t \in Tasks |-> IF t = "main" THEN steps ELSE <<>>] :
                    steps \in {<<>>, <<Close("conn")>>}}
    /\ todo["main"] # <<>> => conn["conn"] \in {"open", "broken"}
    /\ env = NoCredentials
    /\ validCredentials = FALSE
    /\ cred = NoCredentials
    /\ isDemo = TRUE
    /\ endpoint = PublicURL
    /\ mutex = [c \in Conns |-> "free"]
    /\ writing = [c \in Conns |-> {}]
    /\ written = [c \in Conns |-> <<>>]
    /\ currentPositions = {}
    /\ demoPositions = <<>>
    /\ chans = [ch \in Chans |-> <<>>]
    /\ err = [t \in Tasks |-> FALSE]
    /\ dialed = [c \in Conns |-> IF conn[c] = "nil" THEN "fail" ELSE "ok"]
    /\ connectResult = "ok"
    /\ events = 0
    /\ readLog = [c \in Conns |-> <<>>]
    /\ ticks = [c \in Conns |-> 0]
    /\ seqno = [s \in Streams |-> 0]
    /\ ui = NewModel

NextClose ==
    \/ CloseCall
    \/ CloseStep("main")
    \/ \E c \in Conns : TransportFail(c)

SpecClose == InitClose /\ [][NextClose]_vars

---------------------------------------------------------------------------
(* A live session in which positions are opened and closed: the trading    *)
(* feed reports a position and, in a later record, the same position with  *)
(* size 0.                                                                 *)

FeedPositionItems == {PositionItem, ClosedItem}

FeedFrames(c) ==
    DataFrames(c, FeedPositionItems, BalanceItems, SessionTickerItems, MaxBatch)

FeedRead(t) == ReadFrom(t, FeedFrames(Cur(t).a), 1 + MaxSession)

FeedStep(t) ==
    \/ SessionSend(t) \/ LockStep(t) \/ UnlockStep(t) \/ WriteBegin(t) \/ WriteEnd(t)
    \/ BuildArgs(t) \/ Track(t) \/ TickerMerge(t)
    \/ FeedRead(t)

InitFeed == Established(TRUE) /\ events = 1

NextFeed ==
    \/ \E t \in Tasks : FeedStep(t)
    \/ \E ch \in Chans : UiRecv(ch)

SpecFeed == InitFeed /\ [][NextFeed]_vars

---------------------------------------------------------------------------
(* An established session, live or demo, under fair scheduling: a goroutine *)
(* that can run does run, a sender or a locker that is blocked is served    *)
(* when its turn comes (channels and mutexes queue their waiters), and the  *)
(* UI's pending receives are taken.  Frames, ticks and transport failures   *)
(* come when the network and the clock decide.                              *)

Runs(t) ==
    \/ SendStep(t) \/ LockStep(t) \/ UnlockStep(t) \/ WriteBegin(t) \/ WriteEnd(t)
    \/ CloseStep(t) \/ GoStep(t)
    \/ BuildArgs(t) \/ Track(t) \/ TickerMerge(t)
    \/ ReadError(t)

InitDown ==
    /\ \E live \in BOOLEAN : Established(live)
    /\ events = 0

NextDown ==
    \/ \E t \in Tasks : TaskStep(t)
    \/ \E c \in Conns : TransportFail(c)
    \/ \E ch \in Chans : UiRecv(ch)

SpecDown ==
    /\ InitDown /\ [][NextDown]_vars
    /\ \A t \in Tasks : SF_vars(Runs(t))
    /\ \A ch \in Chans : WF_vars(UiRecv(ch))

---------------------------------------------------------------------------
(* The client used on its own: NewOKXClient, SetCredentials with any       *)
(* triple, Connect, StartListening                                         *)

\* A key, a secret and a passphrase, each one given or left empty.
Triples ==
    {Credentials(k, s, p) : k \in {<<>>, UUIDKey}, s \in {<<>>, Rep("s", MinSecretLen)},
                            p \in {<<>>, <<"p", "w">>}}

clientBody == <<Op("setCredentials"), Op("connectTicker"), Op("connectMode")>>

\* SetCredentials stores the triple as given.
CallSetCredentials ==
    /\ At("main", "setCredentials")
    /\ \E triple \in Triples :
          cred' = SetCredentials(triple.apiKey, triple.secretKey, triple.passphrase)
    /\ Continue("main", <<>>)
    /\ UNCHANGED <<isDemo, conn, endpoint, currentPositions, demoPositions, wireVars,
                   envVars, mainVars, chans, ui>>

InitClient ==
    /\ env = NoCredentials
    /\ validCredentials = FALSE
    /\ cred = NoCredentials
    /\ isDemo = FALSE
    /\ conn = [c \in Conns |-> "nil"]
    /\ endpoint = ""
    /\ mutex = [c \in Conns |-> "free"]
    /\ writing = [c \in Conns |-> {}]
    /\ written = [c \in Conns |-> <<>>]
    /\ currentPositions = {}
    /\ demoPositions = <<>>
    /\ chans = [ch \in Chans |-> <<>>]
    /\ todo = [t \in Tasks |-> IF t = "main" THEN clientBody ELSE <<>>]
    /\ err = [t \in Tasks |-> FALSE]
    /\ dialed = [c \in Conns |-> "no"]
    /\ connectResult = "none"
    /\ events = 0
    /\ readLog = [c \in Conns |-> <<>>]
    /\ ticks = [c \in Conns |-> 0]
    /\ seqno = [s \in Streams |-> 0]
    /\ call = NoCall
    /\ ui = [NewModel EXCEPT !.launched = TRUE, !.running = TRUE, !.waiting = InitCmds]

NextClient ==
    \/ CallSetCredentials \/ ConnectTicker \/ ConnectMode \/ StoreDemo
    \/ Dial \/ ConnectReturn
    \/ \E t \in Tasks : TaskStep(t)
    \/ \E c \in Conns : TransportFail(c)
    \/ \E ch \in Chans : UiRecv(ch)

SpecClient == InitClient /\ [][NextClient]_vars

---------------------------------------------------------------------------
(* Properties *)

LoginAck == <<"json", "login", "0">>
LoginAcked == \E i \in 1..Len(readLog["conn"]) : readLog["conn"][i] = LoginAck
HasSubscribe(frames) == \E i \in 1..Len(frames) : frames[i].op = "subscribe"
WritingOn(t, c) == (At(t, "write") \/ At(t, "writeEnd")) /\ Cur(t).a = c
ConnectReturning(result) == At("main", "connectReturn") /\ Cur("main").a = result
DemoSubscribeFrame == SubscribeFrameOf(TickerArgs(Range(DemoInstruments)))

\* C1: in live mode (all three credentials set) Connect writes only the
\* login frame on the trading feed, and a subscribe frame is neither written
\* nor being written there before the read loop has read a login
\* acknowledgement with code "0"; in demo mode Connect returns success with
\* the subscribe frame already written, as the first frame of the feed.
C1_SubscribeAfterLoginAck ==
    /\ AllCredentials =>
          /\ HasSubscribe(written["conn"]) => LoginAcked
          /\ \A t \in Tasks :
                (WritingOn(t, "conn") /\ Cur(t).b.op = "subscribe") => LoginAcked
          /\ connectResult = "none" => written["conn"] \in {<<>>, <<LoginFrame>>}
          /\ ConnectReturning("ok") => written["conn"] = <<LoginFrame>>
    /\ ~AllCredentials =>
          /\ ConnectReturning("ok") => written["conn"] = <<DemoSubscribeFrame>>
          /\ ~HasSubscribe(written["conn"]) => connectResult # "ok"

\* A live run in which the subscription was written after the acknowledgement.
C1_Witness ==
    /\ AllCredentials
    /\ written["conn"] = <<LoginFrame, SubscribeFrameOf(PrivateArgs)>>
    /\ readLog["conn"] = <<LoginAck>>

\* C2: on each connection at most one write is in progress, and a task that
\* writes or is about to write on a connection holds that connection's mutex
\* (connMutex for the trading feed, tickerMutex for the market-data feed).
C2_WritesSerialized ==
    \A c \in Conns :
       /\ Cardinality(writing[c]) <= 1
       /\ \A t \in writing[c] : mutex[c] = t
       /\ \A t \in Tasks : WritingOn(t, c) => mutex[c] = t

\* The ticker heartbeat is writing its ping while a forked subscription waits
\* for tickerMutex.
C2_Witness ==
    /\ writing["tickerConn"] = {"tickerHeartbeat"}
    /\ \E f \in Forks : At(f, "lock") /\ Cur(f).a = "tickerConn"

LoopOf(c) == IF c = "conn" THEN "main" ELSE "tickerListener"
Last(string) == string[Len(string)]
ReadsOn(c) == Len(readLog'[c]) = Len(readLog[c]) + 1
HasRead(steps) == \E i \in 1..Len(steps) : steps[i].op = "read"
FaultSends(steps) == {i \in 1..Len(steps) : steps[i].op = "send" /\ steps[i].a = "errorCh"}

\* A frame that is malformed JSON, an "error" event or a login
\* acknowledgement with a code other than "0".
ProtocolFault(tag) ==
    \/ tag[1] = "badjson"
    \/ tag[1] = "json" /\ tag[2] = "error"
    \/ tag[1] = "json" /\ tag[2] = "login" /\ tag[3] # "0"

\* C3: on either feed, the read of a malformed frame, of an "error" event or
\* of a failed login acknowledgement leaves the connection as it is and
\* leaves the loop with exactly one message to send on the fault channel
\* before its next read; the loop stops reading only in a step in which the
\* read fails, and then it has one fault message to send and no further read.
C3_LoopEndsOnlyOnReadFailure ==
    [][\A c \in Conns :
         /\ (ReadsOn(c) /\ ProtocolFault(Last(readLog'[c]))) =>
               /\ conn' = conn
               /\ Len(todo'[LoopOf(c)]) = 2
               /\ FaultSends(todo'[LoopOf(c)]) = {1}
               /\ todo'[LoopOf(c)][2] = Read(c)
         /\ (HasRead(todo[LoopOf(c)]) /\ ~HasRead(todo'[LoopOf(c)])) =>
               /\ ReadsOn(c)
               /\ Last(readLog'[c]) = ReadFailed
               /\ Cardinality(FaultSends(todo'[LoopOf(c)])) = 1
               /\ 1 \in FaultSends(todo'[LoopOf(c)])]_vars

\* C4: the market-data feed is dialed before the trading feed; a failed dial
\* of it leaves Connect with the report to send and the rest of its work.
\* Connect returns success exactly when the trading feed dialed and its first
\* frame (login or subscribe) was written, and an error exactly when the
\* trading dial failed or that first write failed.
C4_ConnectResult ==
    /\ [](/\ dialed["conn"] # "no" => dialed["tickerConn"] # "no"
          /\ ConnectReturning("ok") =>
                /\ dialed["conn"] = "ok"
                /\ Len(written["conn"]) = 1
                /\ written["conn"][1].op \in {"login", "subscribe"}
          /\ ConnectReturning("error") =>
                \/ dialed["conn"] = "fail"
                \/ dialed["conn"] = "ok" /\ written["conn"] = <<>>
          /\ connectResult = "ok" => dialed["conn"] = "ok" /\ Len(written["conn"]) >= 1
          /\ connectResult = "error" =>
                \/ dialed["conn"] = "fail"
                \/ dialed["conn"] = "ok" /\ written["conn"] = <<>>)
    /\ [][(dialed["tickerConn"] = "no" /\ dialed'["tickerConn"] = "fail") =>
            todo'["main"] = <<Send("errorCh", Msg("Failed to connect to ticker WebSocket")),
                              Op("connectMode")>>]_vars

\* Connect has returned success although the market-data dial failed.
C4_Witness ==
    /\ dialed["tickerConn"] = "fail"
    /\ connectResult = "ok"
    /\ written["conn"] # <<>>

Pings(frames) == Cardinality({i \in 1..Len(frames) : frames[i] = PingFrame})

\* C6: a heartbeat has written at most one ping per 25 s interval it has
\* seen; while its connection is open and it waits for the next interval it
\* has written exactly one per interval; once a connection is closed nothing
\* more is written on it.
C6_OnePingPerInterval ==
    /\ [](\A c \in Conns :
            /\ Pings(written[c]) <= ticks[c]
            /\ (conn[c] = "open" /\ At(HeartbeatOf(c), "tick")) =>
                  Pings(written[c]) = ticks[c])
    /\ [][\A c \in Conns : conn[c] = "closed" =>
            (conn'[c] = "closed" /\ written'[c] = written[c])]_vars

\* Two intervals have elapsed on the open trading connection and two pings
\* are on its wire.
C6_Witness ==
    /\ conn["conn"] = "open"
    /\ ticks["conn"] = 2
    /\ Pings(written["conn"]) = 2

\* The client is at rest: every task has ended or waits for the outside
\* (a timer interval, a frame on an open connection).
ClientIdle ==
    \A t \in Tasks :
       \/ todo[t] = <<>>
       \/ At(t, "tick")
       \/ At(t, "read") /\ conn[Cur(t).a] = "open"

ReadHasFailed(c) == \E i \in 1..Len(readLog[c]) : readLog[c][i] = ReadFailed

\* C7: after the read loop of a feed has ended on a transport error the
\* client reconnects: by the time the client is at rest the feed has been
\* dialed again and its connection is open.
C7_Reconnects ==
    \A c \in Conns : (ReadHasFailed(c) /\ ClientIdle) => conn[c] = "open"

\* C10: when validateAPICredentials has rejected the environment the client
\* never gets credentials, the locals are cleared before the client starts,
\* no login frame is written or about to be written, only the public
\* endpoint is dialed, and by the time the trading feed is dialed the demo
\* flag is set and the demo catalog is seeded.
C10_InvalidMeansDemo ==
    (~At("main", "validate") /\ ~validCredentials) =>
       /\ cred = NoCredentials
       /\ ui.launched => env = NoCredentials
       /\ \A i \in 1..Len(written["conn"]) : written["conn"][i] # LoginFrame
       /\ \A t \in Tasks : \A i \in 1..Len(todo[t]) :
             todo[t][i].op \in {"write", "writeEnd"} => todo[t][i].b # LoginFrame
       /\ endpoint \in {"", PublicURL}
       /\ dialed["conn"] # "no" =>
             /\ isDemo
             /\ endpoint = PublicURL
             /\ DOMAIN demoPositions = Range(DemoInstruments)

\* A rejected environment has led to a demo session on the public endpoint.
C10_Witness ==
    /\ ~validCredentials
    /\ cred = NoCredentials
    /\ isDemo
    /\ dialed["conn"] = "ok"
    /\ endpoint = PublicURL
    /\ written["conn"] = <<DemoSubscribeFrame>>
    /\ DOMAIN ui.positions # {}

\* The wire-order stamps of the records of one feed that wait in a channel,
\* and of those a task has still to send there, in order.
StampsIn(ch, src) ==
    LET q == SelectSeq(chans[ch], LAMBDA m : m.src = src)
    IN  [i \in 1..Len(q) |-> q[i].seq]

PendingStamps(t, ch, src) ==
    LET p == SelectSeq(todo[t],
                 LAMBDA st : \/ st.op = "send" /\ st.a = ch /\ st.b.src = src
                             \/ st.op = "tickerMerge" /\ ch = "positionCh"
                                                       /\ src = "tickerConn")
    IN  [i \in 1..Len(p) |-> IF p[i].op = "send" THEN p[i].b.seq ELSE p[i].b[2]]

BlockedOn(t, ch) == At(t, "send") /\ Cur(t).a = ch /\ Len(chans[ch]) = Cap(ch)

\* C9: each channel holds at most its capacity (100, 100, 10) and changes
\* only by an append at the back or a removal at the front; a task whose
\* send finds the channel full does not move; and every record a read loop
\* has decoded is applied, waits in its channel or is still to be sent.
C9_BoundedBlockingChannels ==
    /\ [](/\ \A ch \in Chans : Len(chans[ch]) <= Cap(ch)
          /\ PositionChCap = 100 /\ BalanceChCap = 100 /\ ErrorChCap = 10
          /\ \A s \in Streams :
                ui.applied[<<s[2], s[1]>>] + Len(StampsIn(s[2], s[1]))
                   + Len(PendingStamps(LoopOf(s[1]), s[2], s[1])) = seqno[s])
    /\ [][/\ \A t \in Tasks : \A ch \in Chans :
               BlockedOn(t, ch) => todo'[t] = todo[t]
          /\ \A ch \in Chans :
               \/ chans'[ch] = chans[ch]
               \/ Len(chans[ch]) > 0 /\ chans'[ch] = Tail(chans[ch])
               \/ /\ Len(chans'[ch]) = Len(chans[ch]) + 1
                  /\ SubSeq(chans'[ch], 1, Len(chans[ch])) = chans[ch]]_vars

\* The fault channel is full, the client waits to send on it, and a record
\* of the demo catalog it sent before waits in the position channel.
C9_Witness ==
    /\ BlockedOn("main", "errorCh")
    /\ Len(chans["positionCh"]) > 0
    /\ ~ui.running

\* The state of an established session is a state of a run from start-up.
LiveSessionReached == Established(TRUE) /\ events = 1
DemoSessionReached == Established(FALSE) /\ events = 1

NoEntryFor(instId) == \A k \in DOMAIN ui.positions : ui.positions[k].instId # instId
IsPriceOnly(rec) == rec = priceOnly(rec.instId, rec.curPx)

\* C5: when the reducer takes from the position channel a record with an
\* empty side whose instrument has no entry in the position table, the table
\* is the same afterwards; and in live mode every record the market-data
\* feed sends or is about to send carries only the instrument and its price.
C5_TickerCreatesNoEntry ==
    /\ [](~isDemo =>
            /\ \A i \in 1..Len(chans["positionCh"]) :
                  chans["positionCh"][i].src = "tickerConn" =>
                     IsPriceOnly(chans["positionCh"][i].rec)
            /\ \A i \in 1..Len(todo["tickerListener"]) :
                  (todo["tickerListener"][i].op = "send"
                   /\ todo["tickerListener"][i].a = "positionCh") =>
                     IsPriceOnly(todo["tickerListener"][i].b.rec))
    /\ [][(/\ Len(chans["positionCh"]) > 0
            /\ chans'["positionCh"] = Tail(chans["positionCh"])
            /\ Head(chans["positionCh"]).rec.posSide = ""
            /\ NoEntryFor(Head(chans["positionCh"]).rec.instId)) =>
              ui'.positions = ui.positions]_vars

\* A live session: the table holds the decoded BTC position, untouched,
\* and the reducer has applied a ticker of the market-data feed.
C5_Witness ==
    /\ ~isDemo
    /\ DOMAIN ui.positions = {positionKey(decodePosition(PositionItem))}
    /\ ui.positions[positionKey(decodePosition(PositionItem))]
          = decodePosition(PositionItem)
    /\ ui.applied[<<"positionCh", "tickerConn">>] = 1
    /\ ui.applied[<<"positionCh", "conn">>] = 1

Increasing(stamps) == \A i \in 1..(Len(stamps) - 1) : stamps[i] < stamps[i + 1]

\* C8: for each feed and each output channel, the stamp of the record the
\* reducer applied last, the stamps of the feed's records that wait in the
\* channel and the stamps of those its read loop has still to send are in
\* increasing wire order.
C8_WireOrderKept ==
    \A ch \in {"positionCh", "balanceCh"} : \A src \in Conns :
       Increasing(<<ui.applied[<<ch, src>>]>> \o StampsIn(ch, src)
                  \o PendingStamps(LoopOf(src), ch, src))

\* Two records of one frame of the trading feed wait in the position channel,
\* in wire order.
C8_Witness ==
    /\ Len(readLog["conn"]) = 2
    /\ StampsIn("positionCh", "conn") = <<1, 2>>

---------------------------------------------------------------------------
(* Credential validation *)

Runes(string) == Cardinality({i \in 1..Len(string) : string[i] # ContinuationByte})

IsHexGroup(string, first, n) ==
    \A i \in first..(first + n - 1) : string[i] \in HexDigits

\* The 8-4-4-4-12 shape: five groups of hex digits with a dash between them.
UUIDShaped(string) ==
    /\ Len(string) = 36
    /\ IsHexGroup(string, 1, 8) /\ string[9] = "-"
    /\ IsHexGroup(string, 10, 4) /\ string[14] = "-"
    /\ IsHexGroup(string, 15, 4) /\ string[19] = "-"
    /\ IsHexGroup(string, 20, 4) /\ string[24] = "-"
    /\ IsHexGroup(string, 25, 12)

Validated == At("main", "validate") /\ ~At("main", "validate")'

\* C11 as stated: validation rejects every key that is not UUID-shaped and
\* every secret shorter than 32 characters, and accepts every UUID-shaped key
\* with a secret of 32 or more characters and a non-empty passphrase.
C11_AsStated ==
    [][Validated =>
         /\ ~UUIDShaped(env.apiKey) => ~validCredentials'
         /\ Runes(env.secretKey) < 32 => ~validCredentials'
         /\ (/\ UUIDShaped(env.apiKey)
             /\ Runes(env.secretKey) >= 32
             /\ Len(env.passphrase) > 0) => validCredentials']_vars

\* C11, amended: validation rejects every key that is not UUID-shaped and
\* every secret shorter than 32 bytes, and accepts every UUID-shaped key with
\* a secret of 32 or more bytes and a non-empty passphrase when neither the
\* secret nor the passphrase contains its placeholder text.
C11_ValidationContract ==
    [][Validated =>
         /\ ~UUIDShaped(env.apiKey) => ~validCredentials'
         /\ Len(env.secretKey) < 32 => ~validCredentials'
         /\ (/\ UUIDShaped(env.apiKey)
             /\ Len(env.secretKey) >= 32
             /\ Len(env.passphrase) > 0
             /\ ~Contains(env.secretKey, PlaceholderSecret)
             /\ ~Contains(env.passphrase, PlaceholderPassphrase)) => validCredentials']_vars

\* Validation has accepted a UUID-shaped key with a 32-byte secret and a
\* passphrase.
C11_Witness ==
    /\ ~At("main", "validate")
    /\ validCredentials
    /\ UUIDShaped(env.apiKey)
    /\ Len(env.secretKey) = 32
    /\ Len(env.passphrase) > 0

---------------------------------------------------------------------------
(* Demo seeding *)

IsSeed(m) == m.src = "seed"
SeedsIn(ch) == SelectSeq(chans[ch], IsSeed)
SeedsApplied(ch) == ui.applied[<<ch, "seed">>]
Seeded == isDemo /\ dialed["conn"] # "no"

\* The record is the catalog entry: its instrument, side, size and average
\* price, the current price at the average price, no PnL yet.
IsCatalogPosition(rec, demo) ==
    /\ rec.instId = demo.instId /\ rec.posSide = demo.side
    /\ rec.size = demo.size /\ rec.avgPx = demo.avgPrice
    /\ rec.curPx = demo.avgPrice /\ rec.pnl = 0 /\ rec.ratio = 0

\* C12: without credentials Connect sends the ten catalog positions on the
\* position channel, each once and in catalog order, with the catalog's
\* values, and one balance record on the balance channel; with credentials it
\* sends none; nothing else reaches the two channels before Connect returns.
C12_DemoSeeding ==
    /\ Cardinality({demoInstruments[i].instId : i \in 1..Len(demoInstruments)}) = 10
    /\ \A i \in 1..Len(SeedsIn("positionCh")) :
          /\ SeedsIn("positionCh")[i].seq = SeedsApplied("positionCh") + i
          /\ SeedsIn("positionCh")[i].seq \in 1..10
          /\ IsCatalogPosition(SeedsIn("positionCh")[i].rec,
                               demoInstruments[SeedsIn("positionCh")[i].seq])
    /\ \A i \in 1..Len(SeedsIn("balanceCh")) :
          SeedsIn("balanceCh")[i].seq = SeedsApplied("balanceCh") + i
    /\ Seeded => /\ SeedsApplied("positionCh") + Len(SeedsIn("positionCh")) = 10
                 /\ SeedsApplied("balanceCh") + Len(SeedsIn("balanceCh")) = 1
    /\ ~isDemo => /\ SeedsApplied("positionCh") + Len(SeedsIn("positionCh")) = 0
                  /\ SeedsApplied("balanceCh") + Len(SeedsIn("balanceCh")) = 0
    /\ connectResult = "none" =>
          \A ch \in {"positionCh", "balanceCh"} :
             \A i \in 1..Len(chans[ch]) : chans[ch][i].src # "conn"

\* Connect has seeded the demo catalog and dialed the public endpoint, and
\* the UI has applied the ten positions and the balance.
C12_Witness ==
    /\ Seeded /\ dialed["conn"] = "ok" /\ Empty(cred.apiKey)
    /\ SeedsApplied("positionCh") = 10
    /\ SeedsApplied("balanceCh") = 1

---------------------------------------------------------------------------
(* The reducer *)

\* The UI takes the message at the head of a channel.
Received(ch) == Len(chans[ch]) > 0 /\ chans'[ch] = Tail(chans[ch])
Record(ch) == Head(chans[ch]).rec
SameEntry(a, b) == a.instId = b.instId /\ a.posSide = b.posSide
KeysOf(positions, rec) == {k \in DOMAIN positions : SameEntry(positions[k], rec)}

\* C13: a full position record (non-empty side) is upserted under its
\* (instrument, side): afterwards exactly one entry has that instrument and
\* side and it equals the record in every field; it is created when there was
\* none; every other entry is kept, under its key, unchanged.
C13_FullRecordUpsert ==
    [][Received("positionCh") /\ Record("positionCh").posSide # "" =>
         /\ Cardinality(KeysOf(ui'.positions, Record("positionCh"))) = 1
         /\ \A k \in KeysOf(ui'.positions, Record("positionCh")) :
               /\ ui'.positions[k] = Record("positionCh")
               /\ DOMAIN ui'.positions = DOMAIN ui.positions \cup {k}
         /\ \A k \in DOMAIN ui.positions :
               ~SameEntry(ui.positions[k], Record("positionCh")) =>
                  k \in DOMAIN ui'.positions /\ ui'.positions[k] = ui.positions[k]]_vars

\* The table holds the long and the short entry of one instrument and an
\* entry of another one, the last of them just stored.
C13_Witness ==
    /\ chans["positionCh"] = <<>>
    /\ Cardinality(DOMAIN ui.positions) = 3
    /\ \E k \in DOMAIN ui.positions : ui.positions[k].posSide = "short"
    /\ \E k \in DOMAIN ui.positions : ui.positions[k].instId = "ETH-USDT-SWAP"

\* The PnL of a side from the prices and the size, and its ratio in percent.
PnLBySide(entry, price) ==
    IF entry.posSide = "short" THEN ((entry.avgPx - price) * entry.size) \div Scale
    ELSE ((price - entry.avgPx) * entry.size) \div Scale

RatioInPercent(pnl, entry) ==
    ((pnl * Scale) \div ((entry.avgPx * entry.size) \div Scale)) * 100

TickerOnly == Received("positionCh") /\ Record("positionCh").posSide = ""

Untouched(k) == ui'.positions[k] = ui.positions[k]

\* C14 as stated: on a ticker-only record every entry of the record's
\* instrument, and only those, gets the record's price and a PnL recomputed
\* from its own average price, size and side; the keys are unchanged.
C14_AsStated ==
    [][TickerOnly =>
         /\ DOMAIN ui'.positions = DOMAIN ui.positions
         /\ \A k \in DOMAIN ui.positions :
               IF ui.positions[k].instId = Record("positionCh").instId
               THEN /\ ui'.positions[k].curPx = Record("positionCh").curPx
                    /\ ui'.positions[k].pnl =
                          PnLBySide(ui.positions[k], Record("positionCh").curPx)
               ELSE Untouched(k)]_vars

\* C14, amended: on a ticker-only record every entry of the record's
\* instrument, and only those, gets the record's price; its PnL and ratio are
\* recomputed from its own average price, size and side when its size and
\* average price are positive and are kept otherwise; nothing else of the
\* entry changes and the keys are unchanged.
C14_TickerMerge ==
    [][TickerOnly =>
         /\ DOMAIN ui'.positions = DOMAIN ui.positions
         /\ \A k \in DOMAIN ui.positions :
               IF ui.positions[k].instId = Record("positionCh").instId
               THEN LET entry == ui.positions[k]
                        price == Record("positionCh").curPx
                        computed == entry.size > 0 /\ entry.avgPx > 0
                        pnl == IF computed THEN PnLBySide(entry, price) ELSE entry.pnl
                    IN  ui'.positions[k] =
                           [entry EXCEPT !.curPx = price, !.pnl = pnl,
                                         !.ratio = IF computed
                                                   THEN RatioInPercent(pnl, entry)
                                                   ELSE entry.ratio]
               ELSE Untouched(k)]_vars

\* A price has been merged into the long and the short entry of one
\* instrument, one with a size and an average price, one without a size.
C14_Witness ==
    /\ ui.applied[<<"positionCh", "tickerConn">>] > 0
    /\ \E j, k \in DOMAIN ui.positions :
          /\ ui.positions[j].instId = ui.positions[k].instId
          /\ ui.positions[j].posSide = "long" /\ ui.positions[k].posSide = "short"
          /\ ui.positions[j].curPx = Scanned("90") /\ ui.positions[k].curPx = Scanned("90")
          /\ ui.positions[j].size > 0 /\ ui.positions[j].avgPx > 0
          /\ ui.positions[k].size = 0

\* The sum of the total equity over the currencies of a balance table.
RECURSIVE Aggregate(_)
Aggregate(balances) ==
    IF DOMAIN balances = {} THEN 0
    ELSE LET ccy == CHOOSE c \in DOMAIN balances : TRUE
         IN  balances[ccy].totalEq
             + Aggregate([c \in DOMAIN balances \ {ccy} |-> balances[c]])

UpsertedByCurrency ==
    /\ DOMAIN ui'.balances = DOMAIN ui.balances \cup {Record("balanceCh").ccy}
    /\ \A c \in DOMAIN ui'.balances :
          ui'.balances[c] = IF c = Record("balanceCh").ccy THEN Record("balanceCh")
                            ELSE ui.balances[c]

\* C15 as stated: on every balance record the previous balance becomes the
\* aggregate total equity the table held just before the record, and the
\* record is upserted by currency.
C15_AsStated ==
    [][Received("balanceCh") =>
         /\ ui'.previousBalance = Aggregate(ui.balances)
         /\ UpsertedByCurrency]_vars

\* C15, amended: on every balance record the previous balance becomes the
\* aggregate total equity the table held just before the record when that
\* aggregate is positive, and is kept otherwise; the record is upserted by
\* currency.
C15_PreviousBalance ==
    [][Received("balanceCh") =>
         /\ ui'.previousBalance = IF Aggregate(ui.balances) > 0
                                  THEN Aggregate(ui.balances)
                                  ELSE ui.previousBalance
         /\ UpsertedByCurrency]_vars

\* Two currencies are stored and the previous balance is the total the table
\* held before the second one arrived.
C15_Witness ==
    /\ chans["balanceCh"] = <<>>
    /\ Cardinality(DOMAIN ui.balances) = 2
    /\ ui.previousBalance > 0
    /\ ui.previousBalance < Aggregate(ui.balances)

Informational(m) == m[1] = "DEBUG:"

\* C20: a fault-channel message becomes the user-visible error if and only
\* if it does not start with "DEBUG:"; an informational message leaves the
\* error as it is and adds a line to the diagnostic view only while the view
\* is enabled; the view holds no line while it is disabled.
C20_ErrorIffNotDebug ==
    /\ [](~ui.showDebug => ui.debugMessages = 0)
    /\ [][Received("errorCh") =>
            IF Informational(Head(chans["errorCh"]))
            THEN /\ ui'.errorMsg = ui.errorMsg /\ ui'.hasError = ui.hasError
                 /\ ui'.debugMessages =
                       IF ~ui.showDebug THEN 0
                       ELSE IF ui.debugMessages < 10 THEN ui.debugMessages + 1 ELSE 10
            ELSE /\ ui'.errorMsg = Head(chans["errorCh"]) /\ ui'.hasError
                 /\ ui'.debugMessages = ui.debugMessages]_vars

\* With the diagnostic view enabled an informational message has been kept
\* while an earlier fault is still shown as the error.
C20_Witness ==
    /\ ui.showDebug /\ ui.debugMessages > 0
    /\ ui.hasError /\ ui.errorMsg = Msg("OKX error received")
    /\ events = 2 /\ chans["errorCh"] = <<>>

---------------------------------------------------------------------------
(* The decoder and the price merges *)

Returned(fn) == call.fn = fn /\ call.returned

\* A field counts as given when it is there with a value other than "" and "0".
Given(data, field) == field \in DOMAIN data /\ data[field] \notin {"", "0"}

\* The position a call computed the PnL of from prices: the record decoded
\* without an explicit PnL from positive prices and size, the demo position
\* merged, the entry merged when its size and average price are positive.
FromPrices(v) ==
    \/ /\ Returned("parsePositionData")
       /\ ~Given(call.args[1], "upl") /\ ~Given(call.args[1], "pnl")
       /\ v = call.value
       /\ v.curPx > 0 /\ v.avgPx > 0 /\ v.size > 0
    \/ Returned("handleTickerData") /\ v = call.value
    \/ /\ Returned("Update") /\ v = call.value
       /\ call.args[1].size > 0 /\ call.args[1].avgPx > 0

\* C16: a PnL computed from prices with a positive size is positive for a
\* long position whose current price is above its average price and for a
\* short position whose current price is below it; for average price 100,
\* size 2 and current price 110 it is 20 for a long and -20 for a short.
C16_PnLSign ==
    \A v \in {call.value} :
       (FromPrices(v) /\ v.size > 0) =>
          /\ (v.posSide = "long" /\ v.curPx > v.avgPx) => v.pnl > 0
          /\ (v.posSide = "short" /\ v.curPx < v.avgPx) => v.pnl > 0
          /\ (v.avgPx = Num(100) /\ v.size = Num(2) /\ v.curPx = Num(110)) =>
                v.pnl = IF v.posSide = "short" THEN 0 - Num(20) ELSE Num(20)

\* A short position of average price 100 and size 2 was decoded, or merged,
\* at the price 110: its PnL is -20.
C16_Witness ==
    /\ FromPrices(call.value)
    /\ call.value.posSide = "short" /\ call.value.size = Num(2)
    /\ call.value.avgPx = Num(100) /\ call.value.curPx = Num(110)
    /\ call.value.pnl = 0 - Num(20)

RatioGiven(data) == Given(data, "uplRatio") \/ Given(data, "pnlRatio")

ExplicitRatio(data) ==
    IF Given(data, "uplRatio") THEN data["uplRatio"] ELSE data["pnlRatio"]

\* C17: where a ratio is computed (no explicit ratio in the record decoded)
\* it is PnL / (averagePrice * size) * 100, and it is computed only for a
\* positive average price and size; otherwise the ratio keeps the value it
\* had: that of the entry merged and, for a record being decoded, the explicit
\* ratio in percent or else 0.  For PnL 20, average price 100 and size 2 the
\* ratio is 10.
C17_Ratio ==
    /\ Returned("parsePositionData") =>
          call.value.ratio =
             IF RatioGiven(call.args[1])
             THEN Sscanf(ExplicitRatio(call.args[1]), 0) * 100
             ELSE IF call.value.avgPx > 0 /\ call.value.size > 0
                  THEN RatioInPercent(call.value.pnl, call.value)
             ELSE 0
    /\ Returned("handleTickerData") =>
          /\ call.args[1].avgPx > 0 /\ call.args[1].size > 0
          /\ call.value.ratio = RatioInPercent(call.value.pnl, call.value)
    /\ Returned("Update") =>
          call.value.ratio =
             IF call.args[1].avgPx > 0 /\ call.args[1].size > 0
             THEN RatioInPercent(call.value.pnl, call.value)
             ELSE call.args[1].ratio
    /\ \A fn \in {"parsePositionData", "handleTickerData", "Update"} :
          (/\ Returned(fn)
           /\ fn = "parsePositionData" => ~RatioGiven(call.args[1])
           /\ call.value.pnl = Num(20)
           /\ call.value.avgPx = Num(100) /\ call.value.size = Num(2)) =>
             call.value.ratio = Num(10)

\* A record was decoded without an explicit ratio to PnL 20 at average price
\* 100 and size 2: its ratio is 10.
C17_Witness ==
    /\ Returned("parsePositionData")
    /\ ~RatioGiven(call.args[1])
    /\ call.value.pnl = Num(20)
    /\ call.value.avgPx = Num(100) /\ call.value.size = Num(2)
    /\ call.value.ratio = Num(10)

Decoded == Returned("parsePositionData")
Raw == call.args[1]

\* The PnL the prices and the size of the decoded record give, if they give one.
Computable(v) == v.curPx > 0 /\ v.avgPx > 0 /\ v.size > 0
Computed(v) ==
    IF v.posSide = "short" THEN Mul(v.avgPx - v.curPx, v.size)
    ELSE Mul(v.curPx - v.avgPx, v.size)

\* C18 as stated: a record with no avgPx field takes its average price from
\* the last field; a record that has an upl field takes its PnL from it; the
\* PnL is the one computed from the prices only when the record has neither
\* an upl nor a pnl field.
C18_AsStated ==
    Decoded =>
       /\ (~Has(Raw, "avgPx") /\ Has(Raw, "last")) =>
             call.value.avgPx = Sscanf(Raw["last"], 0)
       /\ Has(Raw, "upl") => call.value.pnl = Sscanf(Raw["upl"], 0)
       /\ (~Has(Raw, "upl") /\ Has(Raw, "pnl")) =>
             call.value.pnl = Sscanf(Raw["pnl"], 0)

\* C18: a record with no avgPx field takes its average price from the last
\* field; an upl field that is neither empty nor "0" gives the PnL even when
\* the prices and the size compute a different value; failing that, a pnl
\* field that is neither empty nor "0" gives it; the PnL is computed from the
\* prices only when neither field is given in that sense, and then whenever
\* both prices and the size are positive.
C18_FieldFallback ==
    Decoded =>
       /\ (~Has(Raw, "avgPx") /\ Has(Raw, "last")) =>
             call.value.avgPx = Sscanf(Raw["last"], 0)
       /\ Given(Raw, "upl") => call.value.pnl = Sscanf(Raw["upl"], 0)
       /\ (~Given(Raw, "upl") /\ Given(Raw, "pnl")) =>
             call.value.pnl = Sscanf(Raw["pnl"], 0)
       /\ (~Given(Raw, "upl") /\ ~Given(Raw, "pnl")) =>
             call.value.pnl =
                IF Computable(call.value) THEN Computed(call.value) ELSE 0

\* A record with no avgPx, last "90", markPx "110", pos "2" and upl "5.5" was
\* decoded: average price 90, PnL 5.5 where the prices compute 40.
C18_Witness ==
    /\ Decoded
    /\ ~Has(Raw, "avgPx") /\ Has(Raw, "last") /\ Has(Raw, "upl")
    /\ call.value.avgPx = Num(90)
    /\ call.value.pnl = Scanned("5.5")
    /\ Computable(call.value) /\ Computed(call.value) = Num(40)

\* The object without one of its fields.
Without(data, field) == [k \in DOMAIN data \ {field} |-> data[k]]
Malformed(data, field) == Has(data, field) /\ ~Scans(data[field])

\* C19: a record in which a numeric field (pos, avgPx, markPx, lever of a
\* position; totalEq, availBal of a balance) does not parse as a number
\* decodes, and decodes to what the same record without that field decodes
\* to: size 1.0 for pos, the last price for avgPx and markPx, 1.0 for lever,
\* 0 for the balance amounts, every other field as usual.
C19_MalformedAsAbsent ==
    /\ Decoded =>
          \A field \in {"pos", "avgPx", "markPx", "lever"} :
             Malformed(Raw, field) =>
                call.value = decodePosition(Without(Raw, field))
    /\ Returned("parseBalanceData") =>
          \A field \in {"totalEq", "availBal"} :
             Malformed(Raw, field) =>
                call.value = parseBalanceData(Without(Raw, field))

\* Every step of a body in program order, those of its branches and of the
\* tasks it starts included.
RECURSIVE Flat(_)
Flat(steps) ==
    IF Len(steps) = 0 THEN <<>>
    ELSE (CASE Head(steps).op \in {"ifErr", "ifNil"} ->
                  Flat(Head(steps).b[1]) \o Flat(Head(steps).b[2])
            [] Head(steps).op = "go" -> <<Head(steps)>> \o Flat(Head(steps).b)
            [] OTHER -> <<Head(steps)>>)
         \o Flat(Tail(steps))

\* The fault messages of a body, in order.
Faults(steps) ==
    LET flat == Flat(steps)
        RECURSIVE Sent(_)
        Sent(i) == IF i > Len(flat) THEN <<>>
                   ELSE (IF flat[i].op = "send" /\ flat[i].a = "errorCh"
                         THEN <<flat[i].b>> ELSE <<>>) \o Sent(i + 1)
    IN  Sent(1)

\* The body with the contents of its login request left out.
Shape(steps) ==
    [i \in 1..Len(Flat(steps)) |->
        IF Flat(steps)[i].op = "write" /\ Flat(steps)[i].b.op = "login"
        THEN "login request"
        ELSE IF Flat(steps)[i].op = "go" THEN "go"
        ELSE Flat(steps)[i]]

\* A fault message is its literal text (the prefix, the head of the format
\* string) followed by the values formatted into it.
Secrets(credentials) ==
    {credentials.apiKey, credentials.secretKey, credentials.passphrase,
     Sign(credentials.secretKey)}
Mentions(message, credentials) ==
    \E i \in 3..Len(message) : message[i] \in Secrets(credentials)

BothRan == call.returned /\ Len(call.value) = 2

Closes == IF call.fn = "Close" THEN Len(call.value) ELSE 0
LastClose == call.value[Len(call.value)]
ClosedBefore(conns) == \A c \in Conns : conns[c] \in {"nil", "closed"}

\* C22: a call of Close closes both connections (each one that is set);
\* it returns the error of the trading connection's close if that failed,
\* else the error of the market-data connection's close if that failed, else
\* none; and a call on a client whose connections are already closed leaves
\* the client as it is and returns no error.
C22_CloseIdempotent ==
    /\ Closes > 0 =>
          /\ \A c \in Conns :
                LastClose.before[c] # "nil" => LastClose.outcome[c] \in {"ok", "fail"}
          /\ LastClose.err =
                IF LastClose.before["conn"] # "nil" /\ LastClose.outcome["conn"] = "fail"
                THEN "conn"
                ELSE IF /\ LastClose.before["tickerConn"] # "nil"
                        /\ LastClose.outcome["tickerConn"] = "fail"
                     THEN "tickerConn"
                ELSE "nil"
          /\ ClosedBefore(conn)
    /\ \A i \in 1..Closes :
          ClosedBefore(call.value[i].before) => call.value[i].err = "nil"

SubscribesOn(c) == {i \in 1..Len(written[c]) : written[c][i].op = "subscribe"}
Pending(t, op) == \E i \in 1..Len(todo[t]) : todo[t][i].op = op
MarketFeedStep == todo'["tickerListener"] # todo["tickerListener"]

\* C23: decoding a ticker record changes neither the working set nor the
\* market-data subscription.  In a demo run every record of either feed is a
\* ticker record, so the working set stays empty, no insertion into it is
\* pending and the only subscribe frame on the market-data connection is the
\* initial one; and in any run a step of the market-data read loop leaves
\* the working set and the subscribe frames written as they are.
C23_NoResubscribeOnTicker ==
    /\ [](isDemo =>
            /\ currentPositions = {}
            /\ \A t \in Tasks : ~Pending(t, "track")
            /\ Cardinality(SubscribesOn("tickerConn")) <= 1)
    /\ [][MarketFeedStep =>
            /\ currentPositions' = currentPositions
            /\ SubscribesOn("tickerConn")' = SubscribesOn("tickerConn")]_vars

\* A task is at its iteration over the working set (the loop over
\* currentPositions in updateTickerSubscriptions), or at its insertion into it.
Iterating(t) == At(t, "buildArgs")
Inserting(t) == At(t, "track")

\* C24: the task forked by subscribe is never at its iteration over the
\* working set while another task is at an insertion into it.
C24_NoOverlappingAccess ==
    \A f \in Forks : Iterating(f) => \A t \in Tasks \ {f} : ~Inserting(t)

\* Task t takes the step, and the step writes one of the client's maps:
\* currentPositions[instId] = true, or demoPositions[instId] = position in
\* the seeding or in the merge of a ticker.
ByTask(t) == todo'[t] # todo[t]
WritesMap(t, op) ==
    /\ At(t, op)
    /\ ByTask(t)
    /\ op = "tickerMerge" => (isDemo /\ Cur(t).a \in DOMAIN demoPositions)
MapOps == {"track", "storeDemo", "tickerMerge"}
Listening == connectResult = "ok"

\* C25 as stated: currentPositions and demoPositions are written only by the
\* trading feed's read loop while it handles a record.
C25_AsStated ==
    [][/\ \A t \in Tasks : \A op \in MapOps :
             WritesMap(t, op) => (t = "main" /\ Listening)
       /\ (currentPositions' # currentPositions \/ demoPositions' # demoPositions) =>
             (ByTask("main") /\ Listening)]_vars

\* C25: the working set currentPositions is written only by the trading
\* feed's read loop while it handles a record; the demo table demoPositions
\* is written by Connect when it seeds the catalog, before the read loop
\* starts, and after that only by the market-data feed's read loop when it
\* merges a ticker; no forked subscription and no heartbeat writes either.
C25_MapWriters ==
    [][/\ \A t \in Tasks :
             /\ WritesMap(t, "track") => (t = "main" /\ Listening)
             /\ WritesMap(t, "storeDemo") => (t = "main" /\ connectResult = "none")
             /\ WritesMap(t, "tickerMerge") => t = "tickerListener"
       /\ currentPositions' # currentPositions => WritesMap("main", "track")
       /\ demoPositions' # demoPositions =>
             (WritesMap("main", "storeDemo") \/ WritesMap("tickerListener", "tickerMerge"))]_vars

\* The market-data feed's read loop has merged a price into a demo position
\* while the trading feed's read loop holds a record of its own.
C25_Witness ==
    /\ \E k \in DOMAIN demoPositions : demoPositions[k].curPx # demoPositions[k].avgPx
    /\ currentPositions # {}

\* The catalog fields of a position: what the seeding fixes.
Catalog(p) == <<p.instId, p.posSide, p.size, p.avgPx, p.lever>>

\* C26: in a demo session that has been seeded, whatever ticker frames the
\* two feeds deliver, the reducer's position table has the keys of the 10
\* catalog positions and each entry keeps its catalog instrument, side,
\* size, average price and leverage.
C26_DemoCatalogKept ==
    isDemo =>
        /\ DOMAIN ui.positions = DOMAIN seededPositions
        /\ \A k \in DOMAIN seededPositions :
              Catalog(ui.positions[k]) = Catalog(seededPositions[k])

\* The market-data feed alone leaves the catalog alone: a demo session in
\* which the trading feed has delivered no record keeps it.
C26_MarketFeedKeepsCatalog ==
    (isDemo /\ seqno[<<"conn", "positionCh">>] = 0) => C26_DemoCatalogKept

\* The subscribe frame for a working set, and the steps of the trading
\* feed's read loop that stand for a subscription not yet on the wire.
Subscription(insts) ==
    SubscribeFrameOf(TickerArgs(IF insts = {} THEN Range(DemoInstruments) ELSE insts))
Tracked(item) == decodePosition(item).instId # "" /\ decodePosition(item).size > 0
Outstanding(step) ==
    \/ step.op \in {"track", "buildArgs"}
    \/ step.op \in {"write", "writeEnd"} /\ step.a = "tickerConn"
Written(c) == Len(written[c])

OpenInstruments(positions) ==
    {positions[k].instId : k \in {j \in DOMAIN positions : positions[j].size # 0}}
Settled == At("main", "read") /\ chans["positionCh"] = <<>>

\* C28: once the trading feed's records are handled and applied, the working
\* set is the set of instruments that have a position of non-zero size; an
\* instrument whose only position was reported with size 0 is not in it.
C28_WorkingSetIsOpenPositions ==
    (~isDemo /\ Settled) => currentPositions = OpenInstruments(ui.positions)

\* The read loop of task t takes the step that reads frame f.
Handler(t, f) ==
    IF Cur(t).a = "conn" THEN onTradingFrame(f, seqno)
    ELSE onTickerFrame(f, seqno[<<"tickerConn", "positionCh">>])
ReadsFrame(t, f) ==
    /\ At(t, "read")
    /\ readLog'[Cur(t).a] = Append(readLog[Cur(t).a], FrameTag(f))
    /\ todo'[t] = Resolve(Handler(t, f) \o <<Read(Cur(t).a)>>, err[t]).steps
Readers == {"main", "tickerListener"}

\* Malformed JSON, JSON that is neither an event nor a data batch, and a
\* data batch with an item that is no object.
Unexpected(f) ==
    \/ f.kind = "badjson"
    \/ f = OtherJSON
    \/ f.hasData /\ \E k \in 1..Len(f.items) : ~IsObject(f.items[k])
Receipts ==
    {Debug("Received balance items"), Debug("Received position/ticker items"),
     Debug("Received data items (fallback)"), Debug("Received ticker items")}
ReportsFault(step) ==
    step.op = "send" /\ step.a = "errorCh" /\ step.b \notin Receipts

\* C29: a read loop that reads a frame of malformed JSON or of unexpected
\* shape reports a fault on the fault channel, decodes no record from it and
\* goes on to read the next frame.
C29_UnexpectedFrameReported ==
    [][\A t \in Readers :
          At(t, "read") =>
             \A f \in InboundFrames(Cur(t).a) :
                (ReadsFrame(t, f) /\ Unexpected(f)) =>
                   /\ \E k \in 1..Len(todo'[t]) : ReportsFault(todo'[t][k])
                   /\ seqno' = seqno
                   /\ todo'[t][Len(todo'[t])] = Read(Cur(t).a)]_vars

\* The records waiting on the position channel that came from feed c.
Queued(c) ==
    {chans["positionCh"][i].rec :
        i \in {j \in 1..Len(chans["positionCh"]) : chans["positionCh"][j].src = c}}

\* C30: a record without instrument ID is dropped by the decoder: no
\* Position without instrument is placed on the position channel, and the
\* working set holds no empty instrument.
C30_NoInstrumentDropped ==
    /\ \A c \in Conns : \A rec \in Queued(c) : rec.instId # ""
    /\ "" \notin currentPositions

\* C31: every Position parsePositionData returns has the side "long" or
\* "short", and "long" when the record has no posSide field.
C31_SideLongOrShort ==
    (call.fn = "parsePositionData" /\ call.returned) =>
        /\ call.value.posSide \in {"long", "short"}
        /\ ~Has(call.args[1], "posSide") => call.value.posSide = "long"

\* C32: every Position waiting on the position channel and every entry of
\* the UI's position table has a size that is not negative.
C32_SizeNotNegative ==
    /\ \A i \in 1..Len(chans["positionCh"]) : chans["positionCh"][i].rec.size >= 0
    /\ \A k \in DOMAIN ui.positions : ui.positions[k].size >= 0

\* The sends on the position channel among the steps.
PositionSends(steps) ==
    Len(SelectSeq(steps, LAMBDA x : x.op = "send" /\ x.a = "positionCh"))

\* C33: in demo mode the merge of a market-data ticker into the stored demo
\* position of its instrument sets the current price, recomputes PnL and
\* ratio from the stored side, average price and size, stores the result,
\* leaves every other demo position alone, and sends that one full position
\* (side, size, average price and leverage as stored) on the position
\* channel.
C33_DemoMerge ==
    [][\A t \in Tasks :
          (At(t, "tickerMerge") /\ ByTask(t) /\ isDemo
             /\ Cur(t).a \in DOMAIN demoPositions) =>
             LET old == demoPositions[Cur(t).a]
                 new == demoPositions'[Cur(t).a]
                 price == Cur(t).b[1]
             IN  /\ t = "tickerListener"
                 /\ new.curPx = price
                 /\ Catalog(new) = Catalog(old)
                 /\ new.posSide \in {"long", "short"}
                 /\ new.pnl = IF old.posSide = "short"
                               THEN Mul(old.avgPx - price, old.size)
                               ELSE Mul(price - old.avgPx, old.size)
                 /\ new.ratio = Div(new.pnl, Mul(old.avgPx, old.size)) * 100
                 /\ (Cur(t).a = "SOL-USDT-SWAP" /\ price = Num(100)) => new.pnl = 21060
                 /\ \A k \in DOMAIN demoPositions \ {Cur(t).a} :
                       demoPositions'[k] = demoPositions[k]
                 /\ todo'[t][1] =
                       Send("positionCh", Stamp(new, "tickerConn", Cur(t).b[2]))
                 /\ PositionSends(todo'[t]) = PositionSends(Tail(todo[t])) + 1]_vars

\* The merged position of a short demo instrument waits on the position
\* channel with a profit, and it is the position the client has stored.
C33_Witness ==
    \E i \in 1..Len(chans["positionCh"]) :
       LET msg == chans["positionCh"][i]
       IN  /\ isDemo /\ msg.src = "tickerConn"
           /\ msg.rec.posSide = "short" /\ msg.rec.pnl > 0
           /\ msg.rec.curPx # msg.rec.avgPx
           /\ demoPositions[msg.rec.instId] = msg.rec

\* C34: a market-data ticker for an instrument without stored demo position,
\* which is every ticker in live mode, sends one record on the position
\* channel that carries the instrument and the price and nothing else: side
\* empty, size, average price, PnL, ratio and leverage zero; currentPositions
\* and demoPositions stay as they are.
C34_PriceOnlyRecord ==
    /\ [](~isDemo => DOMAIN demoPositions = {})
    /\ [][\A t \in Tasks :
             (At(t, "tickerMerge") /\ ByTask(t)
                /\ ~(isDemo /\ Cur(t).a \in DOMAIN demoPositions)) =>
                /\ t = "tickerListener"
                /\ todo'[t][1].op = "send" /\ todo'[t][1].a = "positionCh"
                /\ todo'[t][1].b.src = "tickerConn"
                /\ todo'[t][1].b.rec =
                      [instId |-> Cur(t).a, posSide |-> "", size |-> 0, avgPx |-> 0,
                       curPx |-> Cur(t).b[1], pnl |-> 0, ratio |-> 0, lever |-> 0]
                /\ Cur(t).a # ""
                /\ PositionSends(todo'[t]) = PositionSends(Tail(todo[t])) + 1
                /\ currentPositions' = currentPositions
                /\ demoPositions' = demoPositions]_vars

\* In a live session a price-only record of the market-data feed waits on
\* the position channel.
C34_Witness ==
    \E i \in 1..Len(chans["positionCh"]) :
       LET msg == chans["positionCh"][i]
       IN  /\ ~isDemo /\ msg.src = "tickerConn"
           /\ msg.rec.posSide = "" /\ msg.rec.curPx = Num(90) /\ msg.rec.size = 0

\* The trading feed's read loop has ended on a failed read; the client is
\* down: every connection that was opened is closed, no read loop is left,
\* and no step that is still to run places a record on the position or the
\* balance channel.
TradingLoopEnded ==
    /\ Len(readLog["conn"]) > 0
    /\ readLog["conn"][Len(readLog["conn"])] = ReadFailed
RecordSends(steps) ==
    Len(SelectSeq(steps, LAMBDA x : x.op = "send" /\ x.a \in {"positionCh", "balanceCh"}))
ClientDown ==
    /\ \A c \in Conns : conn[c] \in {"closed", "nil"}
    /\ \A t \in Readers : ~At(t, "read") /\ todo[t] = <<>>
    /\ \A t \in Tasks : RecordSends(todo[t]) = 0

\* C35: once the trading feed's read loop has ended on a transport error,
\* the client goes down and stays down: both connections are closed, the
\* market-data read loop has ended, and no position or balance record is
\* placed on a channel any more.
C35_TradingFailureIsFatal == TradingLoopEnded ~> []ClientDown

\* The trading feed's loop ended while the market-data feed was still
\* being read, and the client is down.
C35_Witness ==
    /\ TradingLoopEnded /\ ClientDown
    /\ Len(readLog["tickerConn"]) > 1
    /\ readLog["tickerConn"][Len(readLog["tickerConn"])] = ReadFailed
    /\ readLog["tickerConn"][1] # ReadFailed

StartedByConnect == {"tickerListener", "tickerHeartbeat"}

\* C37: when Connect has returned an error, every connection it opened is
\* closed and neither the market-data listener nor a heartbeat it started
\* has a step left to run.
C37_FailedConnectCleansUp ==
    connectResult = "error" =>
        /\ \A c \in Conns : conn[c] \in {"nil", "closed"}
        /\ \A t \in StartedByConnect : todo[t] = <<>>

ErrorShown(m) == m.hasError /\ m.errorMsg # <<>>
ErrorKept == ui'.hasError = ui.hasError /\ ui'.errorMsg = ui.errorMsg

\* C38: the reducer shows an error exactly when a fault-channel message
\* without the "DEBUG:" prefix was processed after the last position record:
\* every position record, a price that matches no stored position included,
\* clears the error; a fault message without the prefix sets it; a balance
\* record, an informational message and every other step leave it as it is,
\* and the flag and the text always go together.
C38_ErrorSinceLastPosition ==
    /\ [](ui.hasError <=> ui.errorMsg # <<>>)
    /\ [][/\ Received("positionCh") => ~ErrorShown(ui') /\ ~ui'.hasError
          /\ Received("balanceCh") => ErrorKept
          /\ Received("errorCh") =>
                IF Informational(Head(chans["errorCh"])) THEN ErrorKept
                ELSE ErrorShown(ui') /\ ui'.errorMsg = Head(chans["errorCh"])
          /\ (\A ch \in Chans : ~Received(ch)) => ErrorKept]_vars

\* A price for an instrument with no stored position was the first message
\* and cleared the error shown at start-up; a fault arrived after it and is
\* still shown after the balance record that followed.
C38_Witness ==
    /\ ui.positions = <<>>
    /\ ui.applied[<<"positionCh", "tickerConn">>] = 1
    /\ ui.applied[<<"balanceCh", "conn">>] = 3
    /\ ui.hasError /\ ui.errorMsg = Msg("OKX error received")
    /\ \A ch \in Chans : chans[ch] = <<>>

PrivateChannels(frame) == frame.op = "subscribe" /\ frame.args \cap PrivateArgs # {}
TickerChannels(frame) ==
    frame.op = "subscribe" /\ \E arg \in frame.args : arg[1] = "tickers"
LoginBefore(i) == \E j \in 1..(i - 1) : written["conn"][j].op = "login"

\* C39: whatever triple SetCredentials was given, a subscription to the
\* private positions and account channels is on the trading connection only
\* when that connection dialed the private endpoint and a login was written
\* before it, and a subscription to ticker channels is on it only when it
\* dialed the public endpoint.
C39_ConnectAndSubscribeAgree ==
    \A i \in 1..Len(written["conn"]) :
        /\ PrivateChannels(written["conn"][i]) =>
               endpoint = PrivateURL /\ LoginBefore(i)
        /\ TickerChannels(written["conn"][i]) => endpoint = PublicURL

Holds(t) == \E c \in Conns : mutex[c] = t
BlockedOnSend(t) == At(t, "send") /\ Len(chans[Cur(t).a]) = Cap(Cur(t).a)

\* C40: no task that holds connMutex or tickerMutex waits on a read or is
\* blocked on a send to a full channel, the fault channel included.
C40_NoBlockingUnderLock ==
    \A t \in Tasks : Holds(t) => ~At(t, "read") /\ ~BlockedOnSend(t)

====
